---- MODULE Spec2Model ----
(***************************************************************************)
(* Agent-OS v3: checkpoint ledger, chain verifier, rollback engine, phase   *)
(* orchestrator, compliance gate, IMR Pentagon validator, retry manager.    *)
(*                                                                         *)
(* The module holds one set of variables and several specifications, one   *)
(* per component:                                                          *)
(*   SpecLedger    concurrent create/complete/fail on the checkpoints table*)
(*   SpecRollback  RollbackManager.rollback_to_checkpoint on a ledger      *)
(*   SpecOrch      two TaskOrchestrator instances running run_once         *)
(*   SpecPentagon  IMRPentagon.validate_all over action types and contexts *)
(*   SpecRetry     RetryManager on the tasks table                         *)
(*   SpecRollbackRace  a rollback beside fail_checkpoint callers            *)
(*   SpecChain     CheckpointVerifier.verify_task_chain over ledgers        *)
(*   SpecGate      compliance gate, one orchestrator and the retry manager  *)
(*   SpecDetector  an UncertaintyDetector over repeated detection passes   *)
(*   SpecCompliance  Compliance.review_proposal over policy findings       *)
(*   SpecRollbackWindow  a rollback on a ledger of several tasks/statuses  *)
(*   SpecRetryRace  two callers inside RetryManager.record_retry            *)
(*   SpecRun       the orchestrators, each begun run_once run to its return *)
(* A specification leaves the variables of the other components unchanged. *)
(***************************************************************************)
EXTENDS Integers, Sequences, FiniteSets, TLC

VARIABLES
    checkpoints,   \* the checkpoints table, in insertion order (id = index)
    creators,      \* callers inside CheckpointManager.create_checkpoint
    files,         \* paths that exist in the work directory
    rb,            \* the call of RollbackManager.rollback_to_checkpoint
    tasks,         \* the tasks table: task id -> row
    workers,       \* TaskOrchestrator instances inside run_once
    invoked,       \* <<worker, task>>: the worker moved the task to running
    signals,       \* the uncertainty_signals table (persisted signals)
    pent,          \* the call of IMRPentagon.validate_all
    audit_trail,   \* number of rows of the audit_trail table
    now,           \* the clock (seconds)
    retry_log,     \* the last RetryManager call and what it returned
    chain_report,  \* the last result of CheckpointVerifier.verify_task_chain
    detector,      \* an UncertaintyDetector and its last detection pass
    gate,          \* the last call of Compliance.review_proposal
    retriers       \* callers inside RetryManager.record_retry

vars == <<checkpoints, creators, files, rb, tasks, workers, invoked, signals,
          pent, audit_trail, now, retry_log, chain_report, detector,
          gate, retriers>>

\* ------------------------------------------------------------------------
\* Bounds
\* ------------------------------------------------------------------------
MaxLedger == 2          \* checkpoints inserted in SpecLedger
MaxChain == 3           \* checkpoints of the ledger SpecRollback starts from
MaxClock == 2           \* ticks of the clock in SpecRetry
MaxCalls == 4           \* RetryManager calls counted per task in SpecRetry
MaxRuns == 1
MaxPasses == 3
MaxAttempt == 6            \* run_once calls that find a task, per orchestrator

\* ------------------------------------------------------------------------
\* Shared values
\* ------------------------------------------------------------------------
NULL == "NULL"
Creators == {"c1", "c2"}
TaskIds == {"t1", "t2"}
ProjectId == "p1"

Max(S) == CHOOSE x \in S : \A y \in S : y <= x
Min2(a, b) == IF a <= b THEN a ELSE b
Range(s) == {s[i] : i \in DOMAIN s}

\* ------------------------------------------------------------------------
\* Checkpoint ledger (src/src/checkpoints.py)
\* ------------------------------------------------------------------------
\* rollback_data: a type tag and the recorded operations; "none" is SQL NULL,
\* "empty" is the empty dict {} (an argument only: it is stored as NULL)
NoRollbackData == [type |-> "none", operations |-> <<>>]
EmptyRollbackData == [type |-> "empty", operations |-> <<>>]
\* {'action': 'invalidate_verification'}: a payload without a 'type' key
UntypedRollbackData == [type |-> "unknown", operations |-> <<>>]

\* hashlib.sha256(json.dumps(data)).hexdigest(): a digest named after its data
compute_hash(data) == "sha256:" \o data

\* SELECT COALESCE(MAX(global_sequence), 0) + 1 FROM checkpoints
get_next_sequence(cps) ==
    IF Len(cps) = 0 THEN 1
    ELSE Max({cps[i].global_sequence : i \in DOMAIN cps}) + 1

\* the row create_checkpoint inserts; `if rollback_data` maps {} to NULL
NewCheckpoint(id, seq, task_id, phase, snapshot, inputs_hash, rollback_data) ==
    [id |-> id,
     global_sequence |-> seq,
     project_id |-> ProjectId,
     task_id |-> task_id,
     phase |-> phase,
     state_snapshot |-> snapshot,
     inputs_hash |-> IF inputs_hash = NULL THEN compute_hash(snapshot)
                     ELSE inputs_hash,
     outputs_hash |-> NULL,
     status |-> "created",
     rollback_data |-> IF rollback_data.type = "empty" THEN NoRollbackData
                       ELSE rollback_data]

LedgerPhases == {"drafting", "verification", "execution"}
LedgerSnapshots == {"s1"}
LedgerHashes == {NULL, "abc123"}

\* create_checkpoint, first statement: global_sequence = self.get_next_sequence()
CreateReadSequence(c) ==
    /\ creators[c].pc = "idle"
    /\ Len(checkpoints) + Cardinality({d \in Creators : creators[d].pc = "have_seq"})
          < MaxLedger
    /\ creators' = [creators EXCEPT ![c] =
                       [pc |-> "have_seq", seq |-> get_next_sequence(checkpoints)]]
    /\ UNCHANGED <<checkpoints, files, rb, tasks, workers, invoked, signals,
                   pent, audit_trail, now, retry_log, chain_report, detector,
                   gate, retriers>>

\* create_checkpoint, last statement: insert_returning('checkpoints', ...)
CreateInsert(c) ==
    /\ creators[c].pc = "have_seq"
    /\ \E t \in {"t1"}, ph \in LedgerPhases, s \in LedgerSnapshots,
          ih \in LedgerHashes :
          checkpoints' = Append(checkpoints,
              NewCheckpoint(Len(checkpoints) + 1, creators[c].seq, t, ph, s, ih,
                            NoRollbackData))
    /\ creators' = [creators EXCEPT ![c] = [pc |-> "idle", seq |-> 0]]
    /\ UNCHANGED <<files, rb, tasks, workers, invoked, signals,
                   pent, audit_trail, now, retry_log, chain_report, detector,
                   gate, retriers>>

\* the row complete_checkpoint leaves: UPDATE ... WHERE id = checkpoint_id
CompletedRow(row, outputs_hash, outputs, rollback_data) ==
    [row EXCEPT
        !.status = "complete",
        !.outputs_hash = IF outputs_hash # NULL THEN outputs_hash
                         ELSE IF outputs # NULL THEN compute_hash(outputs)
                         ELSE @,
        !.rollback_data = IF rollback_data.type \in {"none", "empty"} THEN @
                          ELSE rollback_data]

LedgerOutputs == {NULL, "o1"}
LedgerRollbackData == {NoRollbackData, UntypedRollbackData}

complete_checkpoint(id) ==
    /\ id \in DOMAIN checkpoints
    /\ \E oh \in LedgerHashes, o \in LedgerOutputs, rd \in LedgerRollbackData :
          /\ ~(oh # NULL /\ o # NULL)
          /\ checkpoints' = [checkpoints EXCEPT ![id] = CompletedRow(@, oh, o, rd)]
    /\ UNCHANGED <<creators, files, rb, tasks, workers, invoked, signals,
                   pent, audit_trail, now, retry_log, chain_report, detector,
                   gate, retriers>>

\* fail_checkpoint: UPDATE checkpoints SET status = 'failed' WHERE id = ...
fail_checkpoint(id) ==
    /\ id \in DOMAIN checkpoints
    /\ checkpoints' = [checkpoints EXCEPT ![id].status = "failed"]
    /\ UNCHANGED <<creators, files, rb, tasks, workers, invoked, signals,
                   pent, audit_trail, now, retry_log, chain_report, detector,
                   gate, retriers>>

\* ------------------------------------------------------------------------
\* Rollback engine (src/src/rollback.py)
\* ------------------------------------------------------------------------
RollbackTypes == {"file_operations", "database_operations", "git_operations"}

\* what the environment does to one execute_rollback call:
\*   ok        every statement and every recorded operation succeeds
\*   op_error  a recorded operation fails (OSError, SQL error, git exit code)
\*   db_error  the UPDATE to rolling_back raises; the handler's UPDATE works
\*   db_down   the UPDATE to rolling_back raises and so does the handler's
UndoOutcomes == {"ok", "op_error", "db_error", "db_down"}

\* (variant: the window starts at the target itself)
InWindowFromTarget(row, target) ==
    /\ row.global_sequence >= target.global_sequence
    /\ row.project_id = target.project_id
    /\ (row.task_id = target.task_id \/ row.task_id = NULL)
    /\ row.status = "complete"

\* RollbackManager.get_checkpoint_chain: completed checkpoints after the
\* target in the same project, of the same task or of no task, ascending
InWindow(row, target) ==
    /\ row.global_sequence > target.global_sequence
    /\ row.project_id = target.project_id
    /\ (row.task_id = target.task_id \/ row.task_id = NULL)
    /\ row.status = "complete"

RECURSIVE SortBySequence(_)
SortBySequence(S) ==
    IF S = {} THEN <<>>
    ELSE LET m == CHOOSE x \in S : \A y \in S : x.global_sequence <= y.global_sequence
         IN <<m>> \o SortBySequence(S \ {m})

get_checkpoint_chain(cps, target_id) ==
    SortBySequence({cps[i] : i \in {j \in DOMAIN cps : InWindow(cps[j], cps[target_id])}})

\* (variant: the recorded operations undone in the order of recording)
RECURSIVE UndoFileOpsForward(_, _)
UndoFileOpsForward(ops, fs) ==
    IF ops = <<>> THEN fs
    ELSE LET op == ops[1]
             rest == SubSeq(ops, 2, Len(ops))
         IN IF op.type = "create_file" THEN UndoFileOpsForward(rest, fs \ {op.path})
            ELSE IF op.type = "delete_file" THEN UndoFileOpsForward(rest, fs \cup {op.path})
            ELSE UndoFileOpsForward(rest, fs)

\* _rollback_file_operations: the recorded operations undone in reverse order
RECURSIVE UndoFileOps(_, _)
UndoFileOps(ops, fs) ==
    IF ops = <<>> THEN fs
    ELSE LET op == ops[Len(ops)]
             rest == SubSeq(ops, 1, Len(ops) - 1)
         IN IF op.type = "create_file" THEN UndoFileOps(rest, fs \ {op.path})
            ELSE IF op.type = "delete_file" THEN UndoFileOps(rest, fs \cup {op.path})
            ELSE UndoFileOps(rest, fs)

SetStatus(cps, id, st) == [cps EXCEPT ![id].status = st]

\* RollbackManager.execute_rollback(checkpoint): the result flag, the ledger
\* and the files it leaves, and whether the exception escapes the handler
execute_rollback(cp, cps, fs, outcome) ==
    IF cp.rollback_data.type \in {"none", "empty"}
    THEN [success |-> FALSE, raised |-> FALSE, cps |-> cps, fs |-> fs]
    ELSE IF outcome = "db_down"
    THEN [success |-> FALSE, raised |-> TRUE, cps |-> cps, fs |-> fs]
    ELSE IF outcome = "db_error"
    THEN [success |-> FALSE, raised |-> FALSE,
          cps |-> SetStatus(cps, cp.id, "rollback_failed"), fs |-> fs]
    ELSE IF cp.rollback_data.type \notin RollbackTypes
    THEN [success |-> FALSE, raised |-> FALSE,
          cps |-> SetStatus(cps, cp.id, "rolling_back"), fs |-> fs]
    ELSE IF outcome = "op_error"
    THEN [success |-> FALSE, raised |-> FALSE,
          cps |-> SetStatus(cps, cp.id, "rollback_failed"), fs |-> fs]
    ELSE [success |-> TRUE, raised |-> FALSE,
          cps |-> SetStatus(cps, cp.id, "rolled_back"),
          fs |-> IF cp.rollback_data.type = "file_operations"
                 THEN UndoFileOps(cp.rollback_data.operations, fs)
                 ELSE fs]

RbIdle == [pc |-> "idle", target |-> 0, chain |-> <<>>, pos |-> 0,
           steps_executed |-> 0, status |-> NULL, reason |-> NULL,
           undone |-> <<>>, failed_pos |-> 0, files0 |-> {}, ledger0 |-> <<>>]

Returned(r, status, reason) ==
    [r EXCEPT !.pc = "returned", !.status = status, !.reason = reason]

\* rollback_to_checkpoint up to the loop: target lookup and chain retrieval
RollbackStart(target_id) ==
    /\ rb.pc = "idle"
    /\ LET r0 == [RbIdle EXCEPT !.target = target_id, !.files0 = files,
                              !.ledger0 = checkpoints]
       IN IF target_id \notin DOMAIN checkpoints
          THEN rb' = Returned(r0, "failed", "target_not_found")
          ELSE LET chain == get_checkpoint_chain(checkpoints, target_id)
               IN IF chain = <<>>
                  THEN rb' = Returned(r0, "success", NULL)
                  ELSE rb' = [r0 EXCEPT !.pc = "walking", !.chain = chain,
                                        !.pos = Len(chain)]
    /\ UNCHANGED <<checkpoints, creators, files, tasks, workers, invoked,
                   signals, pent, audit_trail, now, retry_log, chain_report,
                   detector, gate, retriers>>

\* (variant: a state that does not verify is recorded but the walk goes on)
AfterUndoContinues(r, res, verified) ==
    IF res.raised
    THEN Returned(r, "failed", "rollback_exception")
    ELSE IF ~res.success
    THEN Returned(r, "failed", "rollback_execution_failed")
    ELSE LET r2 == [r EXCEPT !.steps_executed = @ + 1]
         IN IF r.pos = 1
            THEN Returned([r2 EXCEPT !.pos = 0],
                          IF verified THEN "success" ELSE "failed", NULL)
            ELSE [r2 EXCEPT !.pos = @ - 1]

\* one iteration of `for checkpoint in reversed(checkpoint_chain)`: r is the
\* call, res the result of execute_rollback, verified that of
\* verify_state_matches; the value is the call after the iteration
AfterUndo(r, res, verified) ==
    IF res.raised
    THEN Returned(r, "failed", "rollback_exception")
    ELSE IF ~res.success
    THEN Returned(r, "failed", "rollback_execution_failed")
    ELSE LET r2 == [r EXCEPT !.steps_executed = @ + 1]
         IN IF ~verified
            THEN Returned(r2, "failed", "state_verification_failed")
            ELSE IF r.pos = 1
            THEN Returned([r2 EXCEPT !.pos = 0], "success", NULL)
            ELSE [r2 EXCEPT !.pos = @ - 1]

\* the bookkeeping of one iteration: `undone` lists the checkpoints handed to
\* execute_rollback, `failed_pos` the position of the first undo that failed,
\* raised, or left a state that did not verify
Noted(r, old, res, verified) ==
    [r EXCEPT !.undone = Append(@, old.chain[old.pos].id),
              !.failed_pos = IF @ = 0 /\ (res.raised \/ ~res.success \/ ~verified)
                             THEN old.pos ELSE @]

RollbackStep ==
    /\ rb.pc = "walking"
    /\ LET cp == rb.chain[rb.pos]
       IN IF cp.rollback_data.type \in {"none", "empty"}
          THEN /\ rb' = Returned(rb, "blocked", "no_rollback_data")
               /\ UNCHANGED <<checkpoints, files>>
          ELSE \E outcome \in UndoOutcomes, verified \in BOOLEAN :
                  LET res == execute_rollback(cp, checkpoints, files, outcome)
                  IN /\ rb' = Noted(AfterUndo(rb, res, verified), rb, res, verified)
                     /\ checkpoints' = res.cps
                     /\ files' = res.fs
    /\ UNCHANGED <<creators, tasks, workers, invoked, signals, pent,
                   audit_trail, now, retry_log, chain_report, detector, gate,
                   retriers>>

\* ------------------------------------------------------------------------
\* Tasks table
\* ------------------------------------------------------------------------
Workers == {"w1", "w2"}

\* creation order of the task rows (created_at ASC)
TaskOrder == <<"t1", "t2">>
CreatedAt(t) == CHOOSE i \in DOMAIN TaskOrder : TaskOrder[i] = t

NewTask(status, priority) ==
    [status |-> status, current_phase |-> "preparation", priority |-> priority,
     retry_count |-> 0, retry_history |-> <<>>, next_retry_at |-> NULL]

\* ------------------------------------------------------------------------
\* Collaborators of the pipeline
\* ------------------------------------------------------------------------
\* Confidence scores are percentages: 0.70 is 70
DraftOf(confidence, flags, language, blocker, security, breaking, complexity) ==
    [confidence_score |-> confidence, uncertainty_flags |-> flags,
     language |-> language, blocker |-> blocker, security_risk |-> security,
     breaking_risk |-> breaking, estimated_complexity |-> complexity]

GoodDraft == DraftOf(95, FALSE, "clean", FALSE, FALSE, FALSE, "simple")
LowConfidenceDraft == DraftOf(60, FALSE, "hedging", FALSE, FALSE, FALSE, "simple")
MidConfidenceDraft == DraftOf(80, FALSE, "clean", FALSE, FALSE, FALSE, "simple")
UnsureDraft == DraftOf(95, FALSE, "unsure", FALSE, FALSE, FALSE, "simple")
SecurityDraft == DraftOf(95, FALSE, "clean", FALSE, TRUE, FALSE, "simple")
BreakingDraft == DraftOf(95, FALSE, "clean", FALSE, FALSE, TRUE, "simple")
ComplexDraft == DraftOf(95, FALSE, "clean", FALSE, FALSE, FALSE, "complex")
NoDraft == DraftOf(0, FALSE, NULL, FALSE, FALSE, FALSE, NULL)

Drafts == {GoodDraft, LowConfidenceDraft, MidConfidenceDraft, UnsureDraft,
           SecurityDraft, BreakingDraft, ComplexDraft}

\* Drafter.generate_draft(task, project_context, relevant_files)
DrafterResults ==
    [success : {TRUE}, halted : {FALSE}, raised : {FALSE}, draft : Drafts]
    \cup [success : {FALSE}, halted : BOOLEAN, raised : {FALSE}, draft : {NoDraft}]
    \cup [success : {FALSE}, halted : {FALSE}, raised : {TRUE}, draft : {NoDraft}]

\* ExecutionController.execute(verification_result, draft, task, context)
ExecutorResults ==
    [success : {TRUE}, halted : {FALSE}, raised : {FALSE}]
    \cup [success : {FALSE}, halted : BOOLEAN, raised : {FALSE}]
    \cup [success : {FALSE}, halted : {FALSE}, raised : {TRUE}]

\* Verifier.verify_draft: the decision taken from the issues and risk flags
DrafterConfidenceFloor == 85

VerifierDecision(draft) ==
    LET has_blockers == \/ draft.confidence_score < DrafterConfidenceFloor
                        \/ draft.uncertainty_flags
                        \/ draft.blocker
        has_security_risks == draft.security_risk
        has_major_issues == draft.estimated_complexity \in {"complex", "expert"}
    IN IF has_blockers THEN "rejected"
       ELSE IF has_security_risks THEN "escalate_to_compliance"
       ELSE IF has_major_issues THEN "revision_required"
       ELSE "approved"

\* the verification_result dict, as far as compliance reads it
VerificationResult(draft) ==
    [decision |-> VerifierDecision(draft),
     security_risk |-> draft.security_risk,
     security_issue |-> draft.blocker,
     breaking_risk |-> draft.breaking_risk,
     external_risk |-> FALSE]

NoVerification ==
    [decision |-> NULL, security_risk |-> FALSE, security_issue |-> FALSE,
     breaking_risk |-> FALSE, external_risk |-> FALSE]

\* Compliance.check_budget_policy(project_id)
check_budget_policy(project_id, over_budget) ==
    IF project_id = NULL THEN "pass"
    ELSE IF over_budget THEN "fail" ELSE "pass"

\* (variant: the security policy reads the risk flags only)
review_proposal_risk_flags_only(vr, project_id, over_budget) ==
    LET security_fail == vr.security_risk
        other_fail == \/ vr.breaking_risk
                      \/ vr.external_risk
                      \/ check_budget_policy(project_id, over_budget) = "fail"
    IN IF ~security_fail /\ ~other_fail
       THEN [decision |-> "cleared", hold |-> FALSE, path |-> NULL]
       ELSE IF security_fail
       THEN [decision |-> "human_review_required", hold |-> TRUE,
             path |-> "security_team"]
       ELSE [decision |-> "human_review_required", hold |-> FALSE,
             path |-> "project_lead"]

\* Compliance.review_proposal: the decision, the hold and the escalation path
review_proposal(vr, project_id, over_budget) ==
    LET security_fail == vr.security_risk \/ vr.security_issue
        other_fail == \/ vr.breaking_risk
                      \/ vr.external_risk
                      \/ check_budget_policy(project_id, over_budget) = "fail"
    IN IF ~security_fail /\ ~other_fail
       THEN [decision |-> "cleared", hold |-> FALSE, path |-> NULL]
       ELSE IF security_fail
       THEN [decision |-> "human_review_required", hold |-> TRUE,
             path |-> "security_team"]
       ELSE [decision |-> "human_review_required", hold |-> FALSE,
             path |-> "project_lead"]

\* Compliance.apply_hold: UPDATE tasks SET status = 'held', current_phase = 'compliance'
apply_hold(tk, t) ==
    [tk EXCEPT ![t].status = "held", ![t].current_phase = "compliance"]

\* --- one call of review_proposal and what it returned
GateIdle == [pc |-> "idle", task |-> NULL, vr |-> NoVerification,
             project_id |-> NULL, over_budget |-> FALSE,
             decision |-> NULL, hold |-> FALSE, path |-> NULL,
             before |-> NULL]

\* verification results with every combination of the findings the
\* policies read
PolicyVerificationResults ==
    {[decision |-> "approved", security_risk |-> s, security_issue |-> i,
      breaking_risk |-> b, external_risk |-> e] : s, i, b, e \in BOOLEAN}

\* Compliance.review_proposal(verification_result, task, project_context)
ReviewProposalCall(t) ==
    /\ \E vr \in PolicyVerificationResults, project_id \in {NULL, ProjectId},
          over_budget \in BOOLEAN :
          LET cr == review_proposal(vr, project_id, over_budget)
          IN /\ tasks' = IF cr.hold THEN apply_hold(tasks, t) ELSE tasks
             /\ gate' = [pc |-> "returned", task |-> t, vr |-> vr,
                         project_id |-> project_id, over_budget |-> over_budget,
                         decision |-> cr.decision, hold |-> cr.hold,
                         path |-> cr.path, before |-> tasks[t].status]
    /\ UNCHANGED <<checkpoints, creators, files, rb, workers, invoked, signals,
                   pent, audit_trail, now, retry_log, chain_report, detector,
                   retriers>>

\* ------------------------------------------------------------------------
\* Uncertainty detector (src/src/uncertainty.py)
\* ------------------------------------------------------------------------
confidence_threshold == 70

Signal(signal_type, severity) == [signal_type |-> signal_type, severity |-> severity]

\* (variant: a score equal to the threshold halts as well)
check_confidence_score_inclusive(score) ==
    IF score <= confidence_threshold THEN {Signal("low_confidence", "halt")}
    ELSE {}

\* UncertaintyDetector.check_confidence_score(score): the signals it appends
check_confidence_score(score) ==
    IF score < confidence_threshold THEN {Signal("low_confidence", "halt")}
    ELSE {}

\* UncertaintyDetector.check_uncertainty_language, pass 1: "unsure" text
\* matches an explicit_uncertainty pattern, "hedging" text a hedging pattern
check_uncertainty_language(language) ==
    IF language = "unsure"
    THEN {Signal("uncertainty_language_explicit_uncertainty", "halt")}
    ELSE IF language = "hedging"
    THEN {Signal("uncertainty_language_hedging", "warn")}
    ELSE {}

\* UncertaintyDetector.has_halt_signals / get_halt_signals
get_halt_signals(sigs) == {s \in sigs : s.severity = "halt"}
has_halt_signals(sigs) == get_halt_signals(sigs) # {}

\* the signals a detection pass over a draft accumulates
DraftSignals(draft) ==
    check_confidence_score(draft.confidence_score)
    \cup check_uncertainty_language(draft.language)

\* --- the detector object over repeated detection passes
DetectorTexts == {"plain", "hedging", "unsure"}
DetectorScores == {50, 70, 90}

\* what the call of groq_integration.detect_uncertainty comes to: the import
\* fails, the call raises, or the classifier answers
GroqAnswers == {"import_error", "exception", "no_uncertainty", "warn", "halt"}

NoInput == [text |-> NULL, score |-> 0, deep_analysis |-> FALSE]

\* UncertaintyDetector.__init__ (use_groq defaults to True); passes, input,
\* found and halted record the last detection pass
NewDetector ==
    [signals |-> {}, use_groq |-> TRUE, groq_loaded |-> FALSE,
     passes |-> 0, op |-> NULL, input |-> NoInput, found |-> {},
     halted |-> FALSE]

\* UncertaintyDetector.check_uncertainty_language, pass 2: one signal per
\* signal of the classifier's answer, halt-severity iff should_halt
groq_signals(answer) ==
    IF answer = "halt" THEN {Signal("groq_unknown", "halt")}
    ELSE IF answer = "warn" THEN {Signal("groq_unknown", "warn")}
    ELSE {}

\* one detection pass on the detector: check_confidence_score(score), then
\* check_uncertainty_language(text, deep_analysis)
DetectionPass(text, score, deep_analysis, answer) ==
    /\ detector.passes < MaxPasses
    /\ answer = "import_error" => ~detector.groq_loaded
    /\ LET regex == check_uncertainty_language(text)
           asks == deep_analysis /\ detector.use_groq /\ regex = {}
           loaded == asks /\ answer # "import_error"
           found == check_confidence_score(score) \cup regex
                    \cup (IF loaded THEN groq_signals(answer) ELSE {})
           sigs == detector.signals \cup found
       IN detector' =
             [signals |-> sigs,
              use_groq |-> detector.use_groq /\ ~(asks /\ answer = "import_error"),
              groq_loaded |-> detector.groq_loaded \/ loaded,
              passes |-> detector.passes + 1,
              op |-> "detection_pass",
              input |-> [text |-> text, score |-> score,
                         deep_analysis |-> deep_analysis],
              found |-> found,
              halted |-> has_halt_signals(sigs)]
    /\ UNCHANGED <<checkpoints, creators, files, rb, tasks, workers, invoked,
                   signals, pent, audit_trail, now, retry_log, chain_report,
                   gate, retriers>>

\* UncertaintyDetector.check_confidence_score(score) called on its own
CheckConfidenceScore(score) ==
    /\ detector.passes < MaxPasses
    /\ LET found == check_confidence_score(score)
           sigs == detector.signals \cup found
       IN detector' = [detector EXCEPT
                          !.signals = sigs,
                          !.passes = @ + 1,
                          !.op = "check_confidence_score",
                          !.input = [NoInput EXCEPT !.score = score],
                          !.found = found,
                          !.halted = has_halt_signals(sigs)]
    /\ UNCHANGED <<checkpoints, creators, files, rb, tasks, workers, invoked,
                   signals, pent, audit_trail, now, retry_log, chain_report,
                   gate, retriers>>

\* UncertaintyDetector.clear
Clear ==
    /\ detector' = [detector EXCEPT !.signals = {}]
    /\ UNCHANGED <<checkpoints, creators, files, rb, tasks, workers, invoked,
                   signals, pent, audit_trail, now, retry_log, chain_report,
                   gate, retriers>>

\* ------------------------------------------------------------------------
\* Retry manager (src/src/retry.py)
\* ------------------------------------------------------------------------
max_retries == 3
base_delay == 30
max_delay == 300

\* (variant: the comparison of should_retry with <= for <)
should_retry_inclusive(tk, task_id) ==
    IF task_id \notin DOMAIN tk THEN FALSE
    ELSE tk[task_id].retry_count <= max_retries

\* RetryManager.should_retry(task_id)
should_retry(tk, task_id) ==
    IF task_id \notin DOMAIN tk THEN FALSE
    ELSE tk[task_id].retry_count < max_retries

\* (variant: the exponent is retry_count, as the docstring's formula)
get_retry_delay_docstring(retry_count) ==
    IF retry_count <= 0 THEN 0
    ELSE Min2(max_delay, base_delay * (2 ^ retry_count))

\* RetryManager.get_retry_delay(retry_count)
get_retry_delay(retry_count) ==
    IF retry_count <= 0 THEN 0
    ELSE Min2(max_delay, base_delay * (2 ^ (retry_count - 1)))

\* (variant: record_retry without the append to retry_history)
RetriedRowNoHistory(row, clock, reason) ==
    IF row.retry_count >= max_retries
    THEN [row EXCEPT !.status = "permanently_failed"]
    ELSE LET new_retry_count == row.retry_count + 1
         IN [row EXCEPT
                !.retry_count = new_retry_count,
                !.status = IF new_retry_count >= max_retries
                           THEN "permanently_failed" ELSE "queued",
                !.next_retry_at = clock + get_retry_delay(new_retry_count)]

\* the task row RetryManager.record_retry(task_id, error_reason) leaves
RetriedRow(row, clock, reason) ==
    IF row.retry_count >= max_retries
    THEN [row EXCEPT !.status = "permanently_failed"]
    ELSE LET new_retry_count == row.retry_count + 1
         IN [row EXCEPT
                !.retry_count = new_retry_count,
                !.retry_history = Append(@, [attempt |-> new_retry_count,
                                             timestamp |-> clock,
                                             reason |-> reason]),
                !.status = IF new_retry_count >= max_retries
                           THEN "permanently_failed" ELSE "queued",
                !.next_retry_at = clock + get_retry_delay(new_retry_count)]

\* ------------------------------------------------------------------------
\* Phase orchestrator (src/src/orchestrator.py)
\* ------------------------------------------------------------------------
WorkerIdle == [pc |-> "idle", task |-> NULL, draft |-> NoDraft,
               vdecision |-> NULL, vr |-> NoVerification, cdecision |-> NULL,
               calls |-> <<>>, result |-> NULL, runs |-> 0]

\* TaskOrchestrator.get_next_task: WHERE status IN ('pending', 'queued')
\* ORDER BY priority ASC, created_at ASC LIMIT 1
Selectable(tk) == {t \in TaskIds : tk[t].status \in {"pending", "queued"}}

get_next_task(tk) ==
    IF Selectable(tk) = {} THEN NULL
    ELSE CHOOSE t \in Selectable(tk) :
            \A u \in Selectable(tk) :
               \/ tk[t].priority < tk[u].priority
               \/ /\ tk[t].priority = tk[u].priority
                  /\ CreatedAt(t) <= CreatedAt(u)

\* a checkpoint opened by a role of the pipeline and closed with `status`;
\* "complete_then_failed" is complete_checkpoint followed by fail_checkpoint
PipelineCheckpoint(cps, t, phase, status, rollback_data) ==
    LET row == NewCheckpoint(Len(cps) + 1, get_next_sequence(cps), t, phase,
                             "s1", NULL, NoRollbackData)
    IN Append(cps,
          IF status = "complete"
          THEN CompletedRow(row, NULL, "o1", rollback_data)
          ELSE IF status = "complete_then_failed"
          THEN [CompletedRow(row, NULL, "o1", rollback_data)
                   EXCEPT !.status = "failed"]
          ELSE [row EXCEPT !.status = status])

\* (variant: the retry branch runs for every failure that has retries left)
handle_failure_retry_always(tk, t, phase, halted) ==
    IF should_retry(tk, t)
    THEN [tk EXCEPT ![t] = [RetriedRow(@, now, "error")
                               EXCEPT !.status = "queued", !.current_phase = NULL]]
    ELSE [tk EXCEPT ![t].status = IF halted THEN "halted" ELSE "failed",
                    ![t].current_phase = phase]

\* TaskOrchestrator._handle_failure(task, phase, result); the retry branch is
\* guarded by `if False and not result.get("halted") and should_retry(...)`
handle_failure(tk, t, phase, halted) ==
    IF FALSE /\ ~halted /\ should_retry(tk, t)
    THEN [tk EXCEPT ![t] = [RetriedRow(@, now, "error")
                               EXCEPT !.status = "queued", !.current_phase = NULL]]
    ELSE [tk EXCEPT ![t].status = IF halted THEN "halted" ELSE "failed",
                    ![t].current_phase = phase]

\* TaskOrchestrator._handle_verification_failure(task, result)
handle_verification_failure(tk, t, decision) ==
    [tk EXCEPT ![t].status =
                   IF decision = "escalate_to_compliance" THEN "awaiting_review"
                   ELSE IF decision = "revision_required" THEN "needs_revision"
                   ELSE "failed",
               ![t].current_phase = "verification"]

\* TaskOrchestrator._handle_compliance_failure(task, result)
handle_compliance_failure(tk, t, decision) ==
    [tk EXCEPT ![t].status =
                   IF decision = "human_review_required" THEN "awaiting_review"
                   ELSE "blocked",
               ![t].current_phase = "compliance"]

\* (variant: the except branch returns without the update)
handle_exception_without_update(tk, t) == tk

\* the `except Exception` branch of execute_task
handle_exception(tk, t) == [tk EXCEPT ![t].status = "failed"]

\* the run returns: the draft and the verification result go out of scope
Finish(w, result) ==
    [w EXCEPT !.pc = "idle", !.result = result, !.draft = NoDraft,
              !.vr = NoVerification]

\* execute_task: `if verification_result['decision'] != 'approved': return ...`
VerificationAllows(decision) == decision = "approved"

\* (variant: only a blocked proposal is stopped)
ComplianceAllowsUnlessBlocked(decision) == decision # "blocked"

\* execute_task: `if compliance_result.get("decision") != "cleared": return ...`
ComplianceAllows(decision) == decision = "cleared"

\* run_once: task = self.get_next_task(project_id)
RunOnceSelect(w) ==
    /\ workers[w].pc = "idle"
    /\ workers[w].runs < MaxRuns
    /\ LET t == get_next_task(tasks)
       IN IF t = NULL
          THEN workers' = [workers EXCEPT ![w] =
                              [WorkerIdle EXCEPT !.result = "no_tasks",
                                                 !.runs = workers[w].runs]]
          ELSE workers' = [workers EXCEPT ![w] =
                              [WorkerIdle EXCEPT !.pc = "selected", !.task = t,
                                                 !.runs = workers[w].runs + 1]]
    /\ UNCHANGED <<checkpoints, creators, files, rb, tasks, invoked, signals,
                   pent, audit_trail, now, retry_log, chain_report, detector,
                   gate, retriers>>

\* execute_task: update('tasks', {'status': 'running', 'current_phase': 'drafting'})
MarkRunning(w) ==
    /\ workers[w].pc = "selected"
    /\ LET t == workers[w].task
       IN /\ tasks' = [tasks EXCEPT ![t].status = "running",
                                    ![t].current_phase = "drafting"]
          /\ invoked' = invoked \cup {<<w, t>>}
    /\ workers' = [workers EXCEPT ![w].pc = "drafting"]
    /\ UNCHANGED <<checkpoints, creators, files, rb, signals,
                   pent, audit_trail, now, retry_log, chain_report, detector,
                   gate, retriers>>

\* PHASE 1: drafter.generate_draft and the branch on its result
DraftingPhase(w) ==
    /\ workers[w].pc = "drafting"
    /\ LET t == workers[w].task
           me == [workers[w] EXCEPT !.calls = Append(@, "drafter")]
       IN \E res \in DrafterResults :
             /\ checkpoints' = PipelineCheckpoint(checkpoints, t, "drafting",
                                   IF res.success THEN "complete" ELSE "failed",
                                   NoRollbackData)
             /\ IF res.raised
                THEN /\ tasks' = handle_exception(tasks, t)
                     /\ workers' = [workers EXCEPT ![w] = Finish(me, "exception")]
                ELSE IF ~res.success
                THEN /\ tasks' = handle_failure(tasks, t, "drafting", res.halted)
                     /\ workers' = [workers EXCEPT ![w] =
                            Finish(me, IF res.halted THEN "halted" ELSE "failed")]
                ELSE /\ tasks' = tasks
                     /\ workers' = [workers EXCEPT ![w] =
                            [me EXCEPT !.pc = "verification", !.draft = res.draft]]
    /\ UNCHANGED <<creators, files, rb, invoked, signals, pent, audit_trail, now,
                   retry_log, chain_report, detector, gate, retriers>>

\* PHASE 2: verifier.verify_draft and the branch on its decision
VerifierOutcomes == {"ok", "check_raises", "notify_raises"}

VerificationPhase(w) ==
    /\ workers[w].pc = "verification"
    /\ LET t == workers[w].task
           vr == VerificationResult(workers[w].draft)
           me == [workers[w] EXCEPT !.calls = Append(@, "verifier")]
           tk == [tasks EXCEPT ![t].current_phase = "verification"]
       IN \E outcome \in VerifierOutcomes :
             /\ outcome = "notify_raises" => vr.decision = "escalate_to_compliance"
             /\ checkpoints' = PipelineCheckpoint(checkpoints, t, "verification",
                                   IF outcome = "ok" THEN "complete"
                                   ELSE IF outcome = "notify_raises"
                                   THEN "complete_then_failed"
                                   ELSE "failed",
                                   UntypedRollbackData)
             /\ IF outcome # "ok"
                THEN /\ tasks' = handle_exception(tk, t)
                     /\ workers' = [workers EXCEPT ![w] = Finish(me, "exception")]
                ELSE IF ~VerificationAllows(vr.decision)
                THEN /\ tasks' = handle_verification_failure(tk, t, vr.decision)
                     /\ workers' = [workers EXCEPT ![w] =
                            Finish([me EXCEPT !.vdecision = vr.decision, !.vr = vr],
                                   "verification_failed")]
                ELSE /\ tasks' = tk
                     /\ workers' = [workers EXCEPT ![w] =
                            [me EXCEPT !.pc = "compliance",
                                       !.vdecision = vr.decision, !.vr = vr]]
    /\ UNCHANGED <<creators, files, rb, invoked, signals, pent, audit_trail, now,
                   retry_log, chain_report, detector, gate, retriers>>

\* PHASE 2.5: compliance.review_proposal and the branch on its decision
CompliancePhase(w) ==
    /\ workers[w].pc = "compliance"
    /\ LET t == workers[w].task
           me == [workers[w] EXCEPT !.calls = Append(@, "compliance")]
           tk == [tasks EXCEPT ![t].current_phase = "compliance"]
       IN \E raised \in BOOLEAN, over_budget \in BOOLEAN :
             LET cr == review_proposal(workers[w].vr, NULL, over_budget)
                 held == IF cr.hold THEN apply_hold(tk, t) ELSE tk
             IN IF raised
                   THEN /\ tasks' = handle_exception(tk, t)
                        /\ workers' = [workers EXCEPT ![w] = Finish(me, "exception")]
                   ELSE IF ~ComplianceAllows(cr.decision)
                   THEN /\ tasks' = handle_compliance_failure(held, t, cr.decision)
                        /\ workers' = [workers EXCEPT ![w] =
                               Finish([me EXCEPT !.cdecision = cr.decision],
                                      "compliance_failed")]
                   ELSE /\ tasks' = tk
                        /\ workers' = [workers EXCEPT ![w] =
                               [me EXCEPT !.pc = "execution",
                                          !.cdecision = cr.decision]]
    /\ UNCHANGED <<checkpoints, creators, files, rb, invoked, signals, pent,
                   audit_trail, now, retry_log, chain_report, detector, gate,
                   retriers>>

\* PHASE 3: executor.execute and the branch on its result
ExecutionPhase(w) ==
    /\ workers[w].pc = "execution"
    /\ LET t == workers[w].task
           me == [workers[w] EXCEPT !.calls = Append(@, "executor")]
           tk == [tasks EXCEPT ![t].current_phase = "execution"]
       IN \E res \in ExecutorResults :
             /\ checkpoints' = PipelineCheckpoint(checkpoints, t, "execution",
                                   IF res.success THEN "complete" ELSE "failed",
                                   NoRollbackData)
             /\ IF res.raised
                THEN /\ tasks' = handle_exception(tk, t)
                     /\ workers' = [workers EXCEPT ![w] = Finish(me, "exception")]
                ELSE IF ~res.success
                THEN /\ tasks' = handle_failure(tk, t, "execution", res.halted)
                     /\ workers' = [workers EXCEPT ![w] =
                            Finish(me, IF res.halted THEN "halted" ELSE "failed")]
                ELSE /\ tasks' = [tk EXCEPT ![t].status = "complete",
                                            ![t].current_phase = "complete"]
                     /\ workers' = [workers EXCEPT ![w] = Finish(me, "success")]
    /\ UNCHANGED <<creators, files, rb, invoked, signals, pent, audit_trail, now,
                   retry_log, chain_report, detector, gate, retriers>>

\* ------------------------------------------------------------------------
\* IMR Pentagon validator (src/src/imr_pentagon.py)
\* ------------------------------------------------------------------------
IRREVERSIBLE_ACTIONS == {"git_push", "create_pr", "send_notification",
                         "delete_file", "external_api_call", "database_write"}

REQUIRED_INPUTS(step) ==
    CASE step = "git_push" ->
            {"repository", "branch", "commit_message", "files_changed"}
      [] step = "create_pr" ->
            {"repository", "source_branch", "target_branch", "title", "description"}
      [] step = "send_notification" -> {"recipient", "message", "channel"}
      [] step = "delete_file" -> {"file_path", "backup_location"}
      [] step = "external_api_call" -> {"endpoint", "method", "payload"}
      [] step = "database_write" -> {"table", "operation", "data"}
      [] OTHER -> {}

MAX_APPROVAL_AGE_HOURS == 24
VerifierConfidenceFloor == 90

\* inputs: the fields present in the dict and those of them with a truthy value
InputsOf(present, truthy) == [present |-> present, truthy |-> truthy]

\* IMRPentagon.validate_inputs(step_name, inputs)
validate_inputs(step, inputs) ==
    IF step \notin IRREVERSIBLE_ACTIONS THEN "warning"
    ELSE LET required == REQUIRED_INPUTS(step)
             missing == required \ inputs.present
             invalid == (required \cap inputs.present) \ inputs.truthy
         IN IF missing # {} \/ invalid # {} THEN "fail" ELSE "pass"

\* the status check_rules expects of the task row
ExpectedPreActionStatus == "executing"

\* IMRPentagon.check_rules(step_name, context); row is the task row read
\* from the tasks table, NULL when there is none
check_rules(step, ctx, row_status) ==
    IF ctx.task_id = NULL THEN "fail"
    ELSE IF row_status = NULL THEN "fail"
    ELSE IF row_status # ExpectedPreActionStatus THEN "fail"
    ELSE IF step = "git_push" /\ ctx.uncommitted_changes THEN "fail"
    ELSE IF step = "create_pr"
            /\ ctx.source_branch
                 = (IF ctx.target_branch = NULL THEN "main" ELSE ctx.target_branch)
         THEN "fail"
    ELSE "pass"

NoApproval == [decision |-> NULL, age_hours |-> 0, completed_at |-> NULL,
               verifier_confidence |-> 0]

\* IMRPentagon.verify_review(step_name, approval_record); completed_at is
\* NULL, "bad_format" or "timestamp", age_hours the age of the timestamp
verify_review(approval) ==
    IF approval = NoApproval THEN "fail"
    ELSE IF approval.decision # "approved" THEN "fail"
    ELSE IF approval.completed_at = NULL THEN "fail"
    ELSE IF approval.completed_at = "bad_format" THEN "fail"
    ELSE IF approval.age_hours > MAX_APPROVAL_AGE_HOURS THEN "fail"
    ELSE IF approval.verifier_confidence < VerifierConfidenceFloor THEN "fail"
    ELSE "pass"

\* (variant: the flag computed from the first four results only)
OverallValidWithoutRecord(inputs_r, method_r, rules_r, review_r, record_r) ==
    \A r \in {inputs_r, method_r, rules_r, review_r} : r = "pass"

\* the flag validate_all returns: all five results are PASS
OverallValid(inputs_r, method_r, rules_r, review_r, record_r) ==
    \A r \in {inputs_r, method_r, rules_r, review_r, record_r} : r = "pass"

\* whether validate_all calls create_record
RecordAttempted(inputs_r, method_r, rules_r, review_r) ==
    \A r \in {inputs_r, method_r, rules_r, review_r} : r = "pass"

\* IMRPentagon.validate_all(step_name, context); audit_ok says whether the
\* INSERT INTO audit_trail of create_record succeeds
validate_all(step, ctx, row_status, audit_ok) ==
    LET inputs_r == validate_inputs(step, ctx.inputs)
        method_r == "pass"
        rules_r == check_rules(step, ctx, row_status)
        review_r == verify_review(ctx.approval_record)
        attempted == RecordAttempted(inputs_r, method_r, rules_r, review_r)
        record_r == IF attempted /\ audit_ok THEN "pass" ELSE "fail"
    IN [valid |-> OverallValid(inputs_r, method_r, rules_r, review_r, record_r),
        inputs |-> inputs_r, method |-> method_r, rules |-> rules_r,
        review |-> review_r, record |-> record_r,
        record_attempted |-> attempted,
        audit_written |-> attempted /\ audit_ok]

\* the contexts validate_all is called with
PentagonSteps == IRREVERSIBLE_ACTIONS \cup {"custom_step"}

PentagonInputs(step) ==
    LET req == REQUIRED_INPUTS(step)
    IN {InputsOf(req, req)}
       \cup {InputsOf(req \ {f}, req \ {f}) : f \in req}
       \cup {InputsOf(req, req \ {f}) : f \in req}
       \cup {InputsOf({}, {})}

PentagonApprovals ==
    {NoApproval}
    \cup [decision : {"approved", "rejected"}, age_hours : {1, 24, 25},
          completed_at : {"timestamp"}, verifier_confidence : {85, 90}]
    \cup [decision : {"approved"}, age_hours : {0},
          completed_at : {NULL, "bad_format"}, verifier_confidence : {95}]

PentagonBranches == {<<"feature", "main">>, <<"main", "main">>,
                     <<"main", NULL>>, <<NULL, NULL>>}

PentIdle == [pc |-> "idle", step |-> NULL, task_id |-> NULL,
             result |-> [valid |-> FALSE, inputs |-> NULL, method |-> NULL,
                         rules |-> NULL, review |-> NULL, record |-> NULL,
                         record_attempted |-> FALSE, audit_written |-> FALSE]]

RowStatus(tk, task_id) ==
    IF task_id \in DOMAIN tk THEN tk[task_id].status ELSE NULL

ValidateAll ==
    /\ pent.pc = "idle"
    /\ \E step \in PentagonSteps, task_id \in {NULL, "t1", "t9"},
          uncommitted \in BOOLEAN, br \in PentagonBranches,
          approval \in PentagonApprovals, audit_ok \in BOOLEAN :
          \E inputs \in PentagonInputs(step) :
             LET ctx == [task_id |-> task_id, inputs |-> inputs,
                         uncommitted_changes |-> uncommitted,
                         source_branch |-> br[1], target_branch |-> br[2],
                         approval_record |-> approval]
                 res == validate_all(step, ctx, RowStatus(tasks, task_id), audit_ok)
             IN /\ pent' = [pc |-> "returned", step |-> step,
                            task_id |-> task_id, result |-> res]
                /\ audit_trail' = IF res.audit_written THEN audit_trail + 1
                                  ELSE audit_trail
    /\ UNCHANGED <<checkpoints, creators, files, rb, tasks, workers, invoked,
                   signals, now, retry_log, chain_report, detector, gate,
                   retriers>>

\* ------------------------------------------------------------------------
\* Retry manager: the calls on the tasks table
\* ------------------------------------------------------------------------
\* the value record_retry returns
RecordRetryReturns(tk, task_id) ==
    IF task_id \notin DOMAIN tk THEN FALSE
    ELSE tk[task_id].retry_count < max_retries

NoRow == NewTask(NULL, 0)

RetryLogIdle == [op |-> NULL, task |-> NULL, ret |-> FALSE, before |-> NoRow,
                 at |-> 0, calls |-> [t \in TaskIds |-> 0],
                 retry_count |-> 0, delay |-> 0]

RetryTargets == TaskIds \cup {"t9"}
RetryReasons == {"timeout"}

RecordRetry(task_id) ==
    /\ task_id \in TaskIds => retry_log.calls[task_id] < MaxCalls
    /\ \E reason \in RetryReasons :
          /\ tasks' = IF task_id \in DOMAIN tasks
                      THEN [tasks EXCEPT ![task_id] = RetriedRow(@, now, reason)]
                      ELSE tasks
          /\ retry_log' =
                [op |-> "record_retry", task |-> task_id,
                 ret |-> RecordRetryReturns(tasks, task_id),
                 before |-> IF task_id \in DOMAIN tasks THEN tasks[task_id]
                            ELSE NoRow,
                 at |-> now,
                 calls |-> IF task_id \in TaskIds
                           THEN [retry_log.calls EXCEPT ![task_id] = @ + 1]
                           ELSE retry_log.calls,
                 retry_count |-> 0, delay |-> 0]
    /\ UNCHANGED <<checkpoints, creators, files, rb, workers, invoked, signals,
                   pent, audit_trail, now, chain_report, detector, gate,
                   retriers>>

ShouldRetry(task_id) ==
    /\ retry_log' = [retry_log EXCEPT !.op = "should_retry", !.task = task_id,
                                      !.ret = should_retry(tasks, task_id),
                                      !.before = NoRow, !.at = now,
                                      !.retry_count = 0, !.delay = 0]
    /\ UNCHANGED <<checkpoints, creators, files, rb, tasks, workers, invoked,
                   signals, pent, audit_trail, now, chain_report, detector,
                   gate, retriers>>

\* (variant: the reset also puts the task back on the queue)
ResetRowRequeued(row) ==
    [row EXCEPT !.retry_count = 0, !.retry_history = <<>>, !.next_retry_at = NULL,
                !.status = "queued"]

\* RetryManager.reset_retries(task_id)
ResetRow(row) ==
    [row EXCEPT !.retry_count = 0, !.retry_history = <<>>, !.next_retry_at = NULL]

ResetRetries(task_id) ==
    /\ task_id \in TaskIds
    /\ tasks' = [tasks EXCEPT ![task_id] = ResetRow(@)]
    /\ retry_log' = [retry_log EXCEPT !.op = "reset_retries", !.task = task_id,
                                      !.ret = TRUE, !.before = tasks[task_id],
                                      !.at = now,
                                      !.calls = [@ EXCEPT ![task_id] = 0],
                                      !.retry_count = 0, !.delay = 0]
    /\ UNCHANGED <<checkpoints, creators, files, rb, workers, invoked, signals,
                   pent, audit_trail, now, chain_report, detector, gate,
                   retriers>>

\* --- record_retry as its two statements, for callers that interleave
Retriers == {"r1", "r2"}

\* a caller of record_retry: the row it read, and per task the number of
\* its calls that returned true
RetrierIdle == [pc |-> "idle", task |-> NULL, retry_count |-> 0,
                retry_history |-> <<>>, calls |-> 0,
                accepted |-> [t \in TaskIds |-> 0]]

\* record_retry, first statement: SELECT retry_count, retry_history
RecordRetryRead(r, task_id) ==
    /\ retriers[r].pc = "idle"
    /\ retriers[r].calls < MaxCalls
    /\ retriers' = [retriers EXCEPT ![r] =
                       [@ EXCEPT !.pc = "read", !.task = task_id,
                                 !.retry_count = tasks[task_id].retry_count,
                                 !.retry_history = tasks[task_id].retry_history,
                                 !.calls = @ + 1]]
    /\ UNCHANGED <<checkpoints, creators, files, rb, tasks, workers, invoked,
                   signals, pent, audit_trail, now, retry_log, chain_report,
                   detector, gate>>

\* record_retry, second statement: the UPDATE computed from the row read
RecordRetryWrite(r) ==
    /\ retriers[r].pc = "read"
    /\ LET t == retriers[r].task
           read == [tasks[t] EXCEPT !.retry_count = retriers[r].retry_count,
                                   !.retry_history = retriers[r].retry_history]
           ret == retriers[r].retry_count < max_retries
       IN \E reason \in RetryReasons :
             /\ tasks' = [tasks EXCEPT ![t] = RetriedRow(read, now, reason)]
             /\ retriers' = [retriers EXCEPT ![r] =
                                [@ EXCEPT !.pc = "idle",
                                          !.accepted[t] = IF ret THEN @ + 1 ELSE @]]
    /\ UNCHANGED <<checkpoints, creators, files, rb, workers, invoked,
                   signals, pent, audit_trail, now, retry_log, chain_report,
                   detector, gate>>

\* RetryManager.get_retry_delay(retry_count) called on its own
DelayArguments == (0 - 1) .. MaxAttempt

GetRetryDelay(retry_count) ==
    /\ retry_log' = [retry_log EXCEPT !.op = "get_retry_delay", !.task = NULL,
                                      !.ret = FALSE, !.before = NoRow,
                                      !.at = now,
                                      !.retry_count = retry_count,
                                      !.delay = get_retry_delay(retry_count)]
    /\ UNCHANGED <<checkpoints, creators, files, rb, tasks, workers, invoked,
                   signals, pent, audit_trail, now, chain_report, detector,
                   gate, retriers>>

Tick ==
    /\ now < MaxClock * base_delay
    /\ now' = now + base_delay
    /\ UNCHANGED <<checkpoints, creators, files, rb, tasks, workers, invoked,
                   signals, pent, audit_trail, retry_log, chain_report,
                   detector, gate, retriers>>

\* ------------------------------------------------------------------------
\* Chain verifier (src/src/checkpoint_verifier.py)
\* ------------------------------------------------------------------------
Phases == {"preparation", "drafting", "verification", "compliance",
           "execution", "confirmation"}

\* VALID_PHASE_TRANSITIONS: phase -> the phases that may follow it; a phase
\* that is no key of the dict has no successor (`.get(prev_phase, [])`)
VALID_PHASE_TRANSITIONS ==
    [p \in Phases \cup {NULL} |->
        CASE p = NULL -> {"preparation", "drafting"}
          [] p = "preparation" -> {"drafting"}
          [] p = "drafting" -> {"verification", "drafting"}
          [] p = "verification" -> {"execution", "drafting"}
          [] p = "execution" -> {"confirmation", "verification"}
          [] OTHER -> {}]

\* SELECT ... FROM checkpoints WHERE task_id = %s ORDER BY global_sequence
TaskChain(cps, task_id) ==
    SortBySequence({cps[i] : i \in {j \in DOMAIN cps : cps[j].task_id = task_id}})

\* the last phase seen before row k: `if current_phase: prev_phase = current_phase`
RECURSIVE PrevPhase(_, _)
PrevPhase(chain, k) ==
    IF k = 1 THEN NULL
    ELSE IF chain[k - 1].phase # NULL THEN chain[k - 1].phase
    ELSE PrevPhase(chain, k - 1)

\* cp_issues of row k of the chain
RowIssues(chain, k) ==
    LET cp == chain[k]
        prev_phase == PrevPhase(chain, k)
        current_phase == cp.phase
    IN (IF /\ prev_phase # NULL
           /\ current_phase # NULL
           /\ current_phase # prev_phase
           /\ current_phase \notin VALID_PHASE_TRANSITIONS[prev_phase]
        THEN {"invalid_phase_transition"} ELSE {})
       \cup (IF cp.state_snapshot = NULL THEN {"missing_state_snapshot"} ELSE {})
       \cup (IF cp.inputs_hash = NULL THEN {"missing_inputs_hash"} ELSE {})
       \cup (IF cp.status = "complete" /\ cp.outputs_hash = NULL
             THEN {"missing_outputs_hash"} ELSE {})

NoReport == [task_id |-> NULL, total_checkpoints |-> 0, valid_checkpoints |-> 0,
             issues |-> {}, is_valid |-> FALSE]

\* CheckpointVerifier.verify_task_chain(task_id): the dict it returns; issues
\* holds the checkpoint ids listed, 0 standing for the entry without an id
verify_task_chain(cps, task_id) ==
    LET chain == TaskChain(cps, task_id)
        flagged == {k \in DOMAIN chain : RowIssues(chain, k) # {}}
    IN IF chain = <<>>
       THEN [task_id |-> task_id, total_checkpoints |-> 0,
             valid_checkpoints |-> 0, issues |-> {0}, is_valid |-> FALSE]
       ELSE [task_id |-> task_id, total_checkpoints |-> Len(chain),
             valid_checkpoints |-> Len(chain) - Cardinality(flagged),
             issues |-> {chain[k].id : k \in flagged},
             is_valid |-> flagged = {}]

VerifyTaskChain(task_id) ==
    /\ chain_report' = verify_task_chain(checkpoints, task_id)
    /\ UNCHANGED <<checkpoints, creators, files, rb, tasks, workers, invoked,
                   signals, pent, audit_trail, now, retry_log, detector,
                   gate, retriers>>

\* ------------------------------------------------------------------------
\* Initial states and specifications
\* ------------------------------------------------------------------------
InitCommon ==
    /\ creators = [c \in Creators |-> [pc |-> "idle", seq |-> 0]]
    /\ rb = RbIdle
    /\ workers = [w \in Workers |-> WorkerIdle]
    /\ invoked = {}
    /\ signals = {}
    /\ pent = PentIdle
    /\ audit_trail = 0
    /\ now = 0
    /\ retry_log = RetryLogIdle
    /\ chain_report = NoReport
    /\ detector = NewDetector
    /\ gate = GateIdle
    /\ retriers = [r \in Retriers |-> RetrierIdle]

DefaultTasks == [t \in TaskIds |-> NewTask("pending", 1)]

\* --- the ledger under concurrent writers
InitLedger ==
    /\ InitCommon
    /\ checkpoints = <<>>
    /\ files = {}
    /\ tasks = DefaultTasks

NextLedger ==
    \/ \E c \in Creators : CreateReadSequence(c)
    \/ \E c \in Creators : CreateInsert(c)
    \/ \E id \in 1..MaxLedger : complete_checkpoint(id)
    \/ \E id \in 1..MaxLedger : fail_checkpoint(id)

SpecLedger == InitLedger /\ [][NextLedger]_vars

\* --- one rollback over a ledger written by sequential creators
PathOf(i) == "file" \o ToString(i)

FileRollbackData(i) ==
    [type |-> "file_operations",
     operations |-> <<[type |-> "create_file", path |-> PathOf(i)]>>]
\* a step that created a file and deleted it again
TransientFileRollbackData(i) ==
    [type |-> "file_operations",
     operations |-> <<[type |-> "create_file", path |-> PathOf(i)],
                      [type |-> "delete_file", path |-> PathOf(i)]>>]
DatabaseRollbackData ==
    [type |-> "database_operations", operations |-> <<>>]

ChainRow(i, status, rd) ==
    LET row == NewCheckpoint(i, i, "t1", "execution", "s1", NULL, NoRollbackData)
    IN IF status = "complete" THEN CompletedRow(row, NULL, "o1", rd)
       ELSE [row EXCEPT !.status = status, !.rollback_data = rd]

ChainRows(i) ==
    {ChainRow(i, st, rd) :
        st \in {"complete", "failed"},
        rd \in {NoRollbackData, FileRollbackData(i), DatabaseRollbackData,
                UntypedRollbackData, TransientFileRollbackData(i)}}

\* the files the recorded steps left behind: those whose last recorded
\* operation is a creation
CreatedFiles(cps) ==
    {cps[i].rollback_data.operations[1].path :
        i \in {j \in DOMAIN cps :
                  /\ cps[j].rollback_data.type = "file_operations"
                  /\ LET ops == cps[j].rollback_data.operations
                     IN ops[Len(ops)].type = "create_file"}}

InitRollback ==
    /\ InitCommon
    /\ checkpoints \in {s \in [1..MaxChain -> UNION {ChainRows(i) : i \in 1..MaxChain}] :
                           \A i \in 1..MaxChain : s[i] \in ChainRows(i)}
    /\ files = CreatedFiles(checkpoints)
    /\ tasks = DefaultTasks

NextRollback ==
    \/ \E target_id \in 1..(MaxChain + 1) : RollbackStart(target_id)
    \/ RollbackStep

SpecRollback == InitRollback /\ [][NextRollback]_vars

\* --- one rollback over a ledger shared by tasks: rows of the target's
\* --- task, of another task and of no task, in every checkpoint status
WindowRows(i) ==
    {[ChainRow(i, st, rd) EXCEPT !.task_id = task] :
        task \in {"t1", "t2", NULL},
        st \in {"complete", "created", "failed", "rolled_back"},
        rd \in {NoRollbackData, FileRollbackData(i)}}

InitRollbackWindow ==
    /\ InitCommon
    /\ checkpoints \in {s \in [1..MaxChain -> UNION {WindowRows(i) : i \in 1..MaxChain}] :
                           \A i \in 1..MaxChain : s[i] \in WindowRows(i)}
    /\ files = CreatedFiles(checkpoints)
    /\ tasks = DefaultTasks

SpecRollbackWindow == InitRollbackWindow /\ [][NextRollback]_vars

\* --- two orchestrator instances on one queue
InitOrch ==
    /\ InitCommon
    /\ checkpoints = <<>>
    /\ files = {}
    /\ tasks \in [TaskIds -> {NewTask(st, 1) : st \in {"pending", "queued"}}]

NextOrch ==
    \/ \E w \in Workers : RunOnceSelect(w)
    \/ \E w \in Workers : MarkRunning(w)
    \/ \E w \in Workers : DraftingPhase(w)
    \/ \E w \in Workers : VerificationPhase(w)
    \/ \E w \in Workers : CompliancePhase(w)
    \/ \E w \in Workers : ExecutionPhase(w)

SpecOrch == InitOrch /\ [][NextOrch]_vars

\* --- validate_all over action types, contexts and task rows
PentagonRowStatuses == {"pending", "running", "executing"}

InitPentagon ==
    /\ InitCommon
    /\ checkpoints = <<>>
    /\ files = {}
    /\ tasks \in [TaskIds -> {NewTask(st, 1) : st \in PentagonRowStatuses}]

NextPentagon == ValidateAll

SpecPentagon == InitPentagon /\ [][NextPentagon]_vars

\* --- the retry manager on failed tasks
InitRetry ==
    /\ InitCommon
    /\ checkpoints = <<>>
    /\ files = {}
    /\ tasks \in [TaskIds -> {NewTask(st, 1) : st \in {"failed", "running"}}]

NextRetry ==
    \/ \E t \in RetryTargets : RecordRetry(t)
    \/ \E t \in RetryTargets : ShouldRetry(t)
    \/ \E t \in TaskIds : ResetRetries(t)
    \/ \E n \in DelayArguments : GetRetryDelay(n)
    \/ Tick

SpecRetry == InitRetry /\ [][NextRetry]_vars

\* --- a detector run over inputs again and again, cleared at any time
NextDetector ==
    \/ \E text \in DetectorTexts, score \in DetectorScores,
          deep_analysis \in BOOLEAN, answer \in GroqAnswers :
          DetectionPass(text, score, deep_analysis, answer)
    \/ \E score \in DetectorScores : CheckConfidenceScore(score)
    \/ Clear

InitDetector ==
    /\ InitCommon
    /\ checkpoints = <<>>
    /\ files = {}
    /\ tasks = DefaultTasks

SpecDetector == InitDetector /\ [][NextDetector]_vars

\* --- the compliance gate called on tasks in any state
GateTaskStatuses == {"running", "queued", "held"}

InitCompliance ==
    /\ InitCommon
    /\ checkpoints = <<>>
    /\ files = {}
    /\ tasks \in [TaskIds -> {NewTask(st, 1) : st \in GateTaskStatuses}]

NextCompliance == \E t \in TaskIds : ReviewProposalCall(t)

SpecCompliance == InitCompliance /\ [][NextCompliance]_vars

\* --- two callers of record_retry on one tasks table
InitRetryRace ==
    /\ InitCommon
    /\ checkpoints = <<>>
    /\ files = {}
    /\ tasks \in [TaskIds -> {NewTask(st, 1) : st \in {"failed", "running"}}]

NextRetryRace ==
    \/ \E r \in Retriers, t \in TaskIds : RecordRetryRead(r, t)
    \/ \E r \in Retriers : RecordRetryWrite(r)

SpecRetryRace == InitRetryRace /\ [][NextRetryRace]_vars

\* ------------------------------------------------------------------------
\* Properties
\* ------------------------------------------------------------------------

\* C1: of any two checkpoints, the one inserted first has the strictly
\* smaller global_sequence, so no two checkpoints share a global_sequence,
\* also when the creators' reads and inserts interleave.
C1_MonotonicSequencing ==
    \A i, j \in DOMAIN checkpoints :
        i < j => checkpoints[i].global_sequence < checkpoints[j].global_sequence

\* the checkpoints of the window as the ledger holds them now
WindowUntouched(r, cps, fs) ==
    /\ \A k \in DOMAIN r.chain : cps[r.chain[k].id] = r.chain[k]
    /\ fs = r.files0

\* C2: when a checkpoint of the rollback window has no rollback data, the
\* call returns blocked with steps_executed = 0, nothing is undone and no
\* checkpoint of the window changes, wherever that checkpoint lies.
C2_RollbackRefusal ==
    (/\ rb.pc = "returned"
     /\ \E k \in DOMAIN rb.chain : rb.chain[k].rollback_data.type = "none")
    => /\ rb.status = "blocked"
       /\ rb.steps_executed = 0
       /\ rb.undone = <<>>
       /\ WindowUntouched(rb, checkpoints, files)

\* C3: once the undo of a checkpoint fails, raises or does not verify, the
\* rollback has returned failed, and no checkpoint of the window with a
\* smaller global_sequence is undone or changed.
C3_HaltOnUndoFailure ==
    rb.failed_pos > 0
    => /\ rb.pc = "returned"
       /\ rb.status = "failed"
       /\ \A k \in 1..(rb.failed_pos - 1) :
             /\ rb.chain[k].id \notin Range(rb.undone)
             /\ checkpoints[rb.chain[k].id] = rb.chain[k]
             /\ rb.chain[k].rollback_data.type = "file_operations"
                  => LET path == rb.chain[k].rollback_data.operations[1].path
                     IN path \in files <=> path \in rb.files0

\* an undo failed while reversible checkpoints were still ahead in the walk
C3_Witness ==
    /\ rb.pc = "returned"
    /\ rb.failed_pos > 1
    /\ rb.steps_executed > 0
    /\ \E k \in 1..(rb.failed_pos - 1) :
          rb.chain[k].rollback_data.type = "file_operations"

\* C4: no task is moved to running (and handed to the drafter) by more
\* than one orchestrator instance.
C4_DisjointClaims ==
    \A t \in TaskIds : Cardinality({w \in Workers : <<w, t>> \in invoked}) <= 1

\* C5: a run invokes the executor only after, in that run, the verifier
\* decided approved and then the compliance gate decided cleared.
C5_ExecutorOnlyAfterCleared ==
    \A w \in Workers :
        (workers[w].pc = "execution" \/ "executor" \in Range(workers[w].calls))
        => /\ workers[w].vdecision = "approved"
           /\ workers[w].cdecision = "cleared"
           /\ SubSeq(workers[w].calls, 1, 3) = <<"drafter", "verifier", "compliance">>

C5_Witness ==
    \E w \in Workers :
        /\ workers[w].calls = <<"drafter", "verifier", "compliance", "executor">>
        /\ workers[w].result = "success"

\* C6: validate_all returns valid exactly when all five checks pass, and
\* when one of inputs, method, rules, review is not pass, no audit entry is
\* attempted or written and record is fail.
C6_PentagonAllOrNothing ==
    pent.pc = "returned"
    => LET r == pent.result
           firstFour == \A x \in {r.inputs, r.method, r.rules, r.review} : x = "pass"
       IN /\ r.valid <=> (firstFour /\ r.record = "pass")
          /\ ~firstFour => /\ ~r.record_attempted
                           /\ ~r.audit_written
                           /\ r.record = "fail"
                           /\ audit_trail = 0
          /\ r.valid => audit_trail = 1

\* one check fails while the others pass
C6_Witness ==
    /\ pent.pc = "returned"
    /\ pent.result.inputs = "fail"
    /\ pent.result.rules = "pass"
    /\ pent.result.review = "pass"
    /\ ~pent.result.valid

\* C7: the executor is not invoked unless validate_all was called
\* immediately before it in the run and returned valid.
C7_PentagonBeforeExecution ==
    \A w \in Workers :
        \A i \in DOMAIN workers[w].calls :
            workers[w].calls[i] = "executor"
            => /\ i > 1
               /\ workers[w].calls[i - 1] = "pentagon"
               /\ pent.pc = "returned"
               /\ pent.result.valid

\* C8: when the drafter returns a draft that carries a halt signal (a
\* confidence below the threshold, or halt-severity language), the run
\* stops there: the task is halted, the run returns without a verifier or
\* executor call, and the halt signals are persisted.
C8_HaltOnUncertainty ==
    [][\A w \in Workers :
          (/\ workers[w].pc = "drafting"
           /\ workers'[w].draft # NoDraft
           /\ has_halt_signals(DraftSignals(workers'[w].draft)))
          => /\ workers'[w].pc = "idle"
             /\ tasks'[workers[w].task].status = "halted"
             /\ \A s \in get_halt_signals(DraftSignals(workers'[w].draft)) :
                   <<workers[w].task, s>> \in signals']_vars

\* C9: counting record_retry calls from retry_count = 0, after exactly
\* max_retries calls should_retry is false and the task is
\* permanently_failed; after fewer calls should_retry is true.
C9_RetryCap ==
    \A t \in TaskIds :
        LET n == retry_log.calls[t]
        IN /\ n = max_retries => /\ ~should_retry(tasks, t)
                                 /\ tasks[t].status = "permanently_failed"
           /\ n < max_retries => should_retry(tasks, t)

C9_Witness ==
    \E t \in TaskIds :
        /\ retry_log.calls[t] = max_retries
        /\ retry_log.op = "record_retry"
        /\ retry_log.task = t

\* what record_retry leaves of the row `before`, but for the status
RetryRecorded(t, before, at) ==
    /\ tasks[t].retry_count = before.retry_count + 1
    /\ Len(tasks[t].retry_history) = Len(before.retry_history) + 1
    /\ SubSeq(tasks[t].retry_history, 1, Len(before.retry_history))
          = before.retry_history
    /\ tasks[t].retry_history[Len(tasks[t].retry_history)].attempt
          = before.retry_count + 1
    /\ tasks[t].retry_history[Len(tasks[t].retry_history)].timestamp = at
    /\ tasks[t].next_retry_at = at + get_retry_delay(before.retry_count + 1)

AtCapRefused(t, before) ==
    /\ ~retry_log.ret
    /\ tasks[t].status = "permanently_failed"
    /\ tasks[t].retry_count = before.retry_count
    /\ tasks[t].retry_history = before.retry_history

\* C10 as stated: at the cap record_retry refuses; below the cap it returns
\* true, records the retry and leaves the task queued.
C10_RecordRetryRequeues ==
    (retry_log.op = "record_retry" /\ retry_log.task \in TaskIds)
    => LET t == retry_log.task
           before == retry_log.before
       IN IF before.retry_count >= max_retries
          THEN AtCapRefused(t, before)
          ELSE /\ retry_log.ret
               /\ RetryRecorded(t, before, retry_log.at)
               /\ tasks[t].status = "queued"

\* C10, amended: at the cap record_retry refuses; below the cap it returns
\* true and records the retry, leaving the task queued when the new
\* retry_count is below max_retries and permanently_failed when the new
\* retry_count reaches max_retries.
C10_RecordRetryEffect ==
    (retry_log.op = "record_retry" /\ retry_log.task \in TaskIds)
    => LET t == retry_log.task
           before == retry_log.before
       IN IF before.retry_count >= max_retries
          THEN AtCapRefused(t, before)
          ELSE /\ retry_log.ret
               /\ RetryRecorded(t, before, retry_log.at)
               /\ tasks[t].status = IF before.retry_count + 1 < max_retries
                                    THEN "queued" ELSE "permanently_failed"

\* the retry that reaches the cap has just been recorded
C10_Witness ==
    /\ retry_log.op = "record_retry"
    /\ retry_log.task \in TaskIds
    /\ retry_log.ret
    /\ retry_log.before.retry_count = max_retries - 1

\* ------------------------------------------------------------------------
\* Ledger claims C11, C13, C14
\* ------------------------------------------------------------------------
\* C11: a checkpoint leaves created exactly once: after complete_checkpoint
\* or fail_checkpoint was applied to it, no later complete_checkpoint or
\* fail_checkpoint call changes its status.
C11_StatusLeavesCreatedOnce ==
    [][\A i \in DOMAIN checkpoints :
          checkpoints[i].status \in {"complete", "failed"}
          => checkpoints'[i].status = checkpoints[i].status]_vars

\* C13: every checkpoint has an inputs_hash, and every complete checkpoint
\* has an outputs_hash.
C13_HashesPresent ==
    \A i \in DOMAIN checkpoints :
        /\ checkpoints[i].inputs_hash # NULL
        /\ checkpoints[i].status = "complete"
           => checkpoints[i].outputs_hash # NULL

\* C14: for every task, every pair of consecutive checkpoints (ordered by
\* global_sequence) has a phase pair of the transition table.
C14_ChainFollowsTable ==
    \A t \in TaskIds :
        LET chain == TaskChain(checkpoints, t)
        IN \A k \in 1..(Len(chain) - 1) :
              chain[k + 1].phase \in VALID_PHASE_TRANSITIONS[chain[k].phase]

\* --- a rollback while other callers of the ledger are at work
NextRollbackRace ==
    \/ \E target_id \in 1..(MaxChain + 1) : RollbackStart(target_id)
    \/ RollbackStep
    \/ \E id \in 1..MaxChain : fail_checkpoint(id)

SpecRollbackRace == InitRollback /\ [][NextRollbackRace]_vars

RollbackStatuses == {"rolling_back", "rolled_back", "rollback_failed"}

\* C12: a checkpoint's status becomes rolling_back, rolled_back or
\* rollback_failed only if it was complete immediately before its undo
\* began, also when a fail_checkpoint call interleaves with the rollback.
C12_RollbackOnlyFromComplete ==
    [][\A i \in DOMAIN checkpoints :
          (/\ checkpoints'[i].status \in RollbackStatuses
           /\ checkpoints'[i].status # checkpoints[i].status)
          => checkpoints[i].status = "complete"]_vars

\* --- the chain verifier over ledgers as the table may hold them
MaxVerified == 2        \* checkpoints of the ledger SpecChain starts from

\* a row of the checkpoints table, written by any client of the table
VerifiedRows(i) ==
    {[NewCheckpoint(i, i, "t1", ph, "s1", "abc123", NoRollbackData)
         EXCEPT !.inputs_hash = ih, !.status = "created"] :
        ph \in Phases, ih \in LedgerHashes}
    \cup {[NewCheckpoint(i, i, "t1", ph, "s1", "abc123", NoRollbackData)
              EXCEPT !.inputs_hash = ih, !.status = "complete",
                     !.outputs_hash = oh] :
             ph \in Phases, ih \in LedgerHashes, oh \in LedgerHashes}

InitChain ==
    /\ InitCommon
    /\ \E n \in 0..MaxVerified :
          checkpoints \in {s \in [1..n -> UNION {VerifiedRows(i) : i \in 1..n}] :
                              \A i \in 1..n : s[i] \in VerifiedRows(i)}
    /\ files = {}
    /\ tasks = DefaultTasks

NextChain == \E task_id \in TaskIds : VerifyTaskChain(task_id)

SpecChain == InitChain /\ [][NextChain]_vars

\* the transition table as the specification gives it
SpecTransitionTable ==
    {<<"preparation", "drafting">>, <<"drafting", "verification">>,
     <<"verification", "compliance">>, <<"compliance", "execution">>,
     <<"execution", "confirmation">>,
     <<"verification", "drafting">>, <<"execution", "verification">>}

HashesPresent(cp) ==
    /\ cp.inputs_hash # NULL
    /\ cp.status = "complete" => cp.outputs_hash # NULL

\* C15: the table the chain verifier applies is the specification's: on a
\* verified chain, a checkpoint with its hashes present is reported exactly
\* when the phase pair it forms with its predecessor is outside the table
\* (so drafting, verification, compliance, execution is accepted).
C15_TransitionTable ==
    chain_report.task_id # NULL
    => LET chain == TaskChain(checkpoints, chain_report.task_id)
       IN \A k \in 1..(Len(chain) - 1) :
             HashesPresent(chain[k + 1])
             => (chain[k + 1].id \in chain_report.issues
                 <=> <<chain[k].phase, chain[k + 1].phase>> \notin SpecTransitionTable)

\* a defect of row k that verify_task_chain has to report, the phase table
\* being the one the verifier holds
Defective(chain, k) ==
    \/ ~HashesPresent(chain[k])
    \/ /\ k > 1
       /\ chain[k].phase \notin VALID_PHASE_TRANSITIONS[chain[k - 1].phase]

\* C16: verify_task_chain returns is_valid = false and lists the offending
\* checkpoint whenever a checkpoint lacks inputs_hash, a complete checkpoint
\* lacks outputs_hash, or a consecutive pair is outside the phase table; on a
\* non-empty chain without defect it returns is_valid = true with
\* valid_checkpoints = total_checkpoints; it never modifies the ledger.
C16_ChainVerifierFlags ==
    /\ [](chain_report.task_id # NULL
          => LET chain == TaskChain(checkpoints, chain_report.task_id)
                 bad == {k \in DOMAIN chain : Defective(chain, k)}
             IN /\ bad # {}
                   => /\ ~chain_report.is_valid
                      /\ \A k \in bad : chain[k].id \in chain_report.issues
                /\ (chain # <<>> /\ bad = {})
                   => /\ chain_report.is_valid
                      /\ chain_report.valid_checkpoints
                            = chain_report.total_checkpoints)
    /\ [][checkpoints' = checkpoints]_vars

\* --- the compliance gate, the orchestrators and the retry manager on one
\* --- tasks table
\* verification results handed to Compliance.review_proposal by its callers
GateVerificationResults ==
    {[NoVerification EXCEPT !.decision = "approved", !.security_risk = s,
                            !.breaking_risk = b] : s, b \in BOOLEAN}

Approvers == {"security_team"}

\* Compliance.review_proposal(verification_result, task, project_context):
\* its effect on the tasks table is the hold it applies
ReviewProposal(t) ==
    /\ \E vr \in GateVerificationResults, over_budget \in BOOLEAN :
          LET cr == review_proposal(vr, ProjectId, over_budget)
          IN tasks' = IF cr.hold THEN apply_hold(tasks, t) ELSE tasks
    /\ UNCHANGED <<checkpoints, creators, files, rb, workers, invoked, signals,
                   pent, audit_trail, now, retry_log, chain_report, detector,
                   gate, retriers>>

\* Compliance.release_hold(task_id, hold_type, approver):
\* UPDATE tasks SET status = 'queued', current_phase = NULL
\*  WHERE id = %s AND status = 'held'
release_hold(tk, t) ==
    IF tk[t].status = "held"
    THEN [tk EXCEPT ![t].status = "queued", ![t].current_phase = NULL]
    ELSE tk

ReleaseHold(t, approver) ==
    /\ approver \in Approvers
    /\ tasks' = release_hold(tasks, t)
    /\ UNCHANGED <<checkpoints, creators, files, rb, workers, invoked, signals,
                   pent, audit_trail, now, retry_log, chain_report, detector,
                   gate, retriers>>

\* the steps of one orchestrator instance
NextWorker(w) ==
    \/ RunOnceSelect(w)
    \/ MarkRunning(w)
    \/ DraftingPhase(w)
    \/ VerificationPhase(w)
    \/ CompliancePhase(w)
    \/ ExecutionPhase(w)

NextGate ==
    \/ NextWorker("w1")
    \/ \E t \in TaskIds : ReviewProposal(t)
    \/ \E t \in TaskIds, a \in Approvers : ReleaseHold(t, a)
    \/ \E t \in TaskIds : RecordRetry(t)

SpecGate == InitOrch /\ [][NextGate]_vars

\* C17: a task that is held stays held until release_hold is called for it
\* with an approver identity; no step of the orchestrator, the compliance
\* gate or the retry manager moves it out of held.
C17_HeldUntilReleased ==
    [][\A t \in TaskIds :
          (tasks[t].status = "held" /\ tasks'[t].status # "held")
          => \E a \in Approvers : ReleaseHold(t, a)]_vars

\* ------------------------------------------------------------------------
\* Task status and retry routing: C18, C19, C20
\* ------------------------------------------------------------------------
\* the task statuses the specification lists
SpecTaskStatuses == {"pending", "queued", "running", "complete", "failed",
                     "halted", "permanently_failed", "held"}

\* C18: every task's status is one of pending, queued, running, complete,
\* failed, halted, permanently_failed, held.
C18_StatusInSet ==
    \A t \in TaskIds : tasks[t].status \in SpecTaskStatuses

\* the run of worker w has returned with the given result
RunReturned(w, result) ==
    /\ workers[w].pc = "idle"
    /\ workers[w].task # NULL
    /\ workers[w].result = result

\* C19: a task whose run ended in a halt or in a compliance outcome other
\* than cleared is not auto-retried: no retry is recorded for it and it is
\* not queued.
C19_NoAutoRetryAfterHalt ==
    \A w \in Workers :
        (RunReturned(w, "halted") \/ RunReturned(w, "compliance_failed"))
        => LET row == tasks[workers[w].task]
           IN /\ row.status # "queued"
              /\ row.retry_count = 0
              /\ row.retry_history = <<>>

\* a run has ended in a halt raised by the executor, the task left halted
C19_Witness ==
    \E w \in Workers :
        /\ RunReturned(w, "halted")
        /\ workers[w].calls # <<>>
        /\ workers[w].calls[Len(workers[w].calls)] = "executor"
        /\ tasks[workers[w].task].status = "halted"

\* C20: when execution fails without a halt and the task has retries left,
\* the orchestrator records a retry and re-queues the task with a
\* next_retry_at instead of leaving it failed.
C20_ExecutionFailureRetried ==
    \A w \in Workers :
        (/\ RunReturned(w, "failed")
         /\ workers[w].calls # <<>>
         /\ workers[w].calls[Len(workers[w].calls)] = "executor")
        => LET row == tasks[workers[w].task]
           IN /\ row.status = "queued"
              /\ row.retry_count >= 1
              /\ row.next_retry_at # NULL

\* ------------------------------------------------------------------------
\* The pipeline's ledger trail: C21, C22
\* ------------------------------------------------------------------------
\* the phase a role of the pipeline works in
PhaseOfRole(role) ==
    CASE role = "drafter" -> "drafting"
      [] role = "verifier" -> "verification"
      [] role = "compliance" -> "compliance"
      [] role = "executor" -> "execution"
      [] OTHER -> NULL

\* task t was run by worker w and by no other worker
RunAlone(w, t) == {v \in Workers : <<v, t>> \in invoked} = {w}

\* C21: when drafting succeeds, verification approves, compliance clears and
\* execution succeeds, the run visited drafting, verification, compliance,
\* execution in this order, the task is complete, and the task has exactly 4
\* checkpoints, each complete with outputs_hash set, the last one in phase
\* execution.
C21_HappyPath ==
    \A w \in Workers :
        (RunReturned(w, "success") /\ RunAlone(w, workers[w].task))
        => LET t == workers[w].task
               chain == TaskChain(checkpoints, t)
           IN /\ workers[w].calls
                    = <<"drafter", "verifier", "compliance", "executor">>
              /\ tasks[t].status = "complete"
              /\ Len(chain) = 4
              /\ \A k \in DOMAIN chain :
                    /\ chain[k].status = "complete"
                    /\ chain[k].outputs_hash # NULL
              /\ chain[Len(chain)].phase = "execution"

\* C22: for every phase a run went through, whatever its outcome, a
\* checkpoint of that phase has been opened and then completed or failed
\* before execute_task returns.
C22_EveryPhaseRecorded ==
    \A w \in Workers :
        (workers[w].pc = "idle" /\ workers[w].task # NULL)
        => \A role \in Range(workers[w].calls) :
              \E i \in DOMAIN checkpoints :
                 /\ checkpoints[i].task_id = workers[w].task
                 /\ checkpoints[i].phase = PhaseOfRole(role)
                 /\ checkpoints[i].status \in {"complete", "failed"}

\* ------------------------------------------------------------------------
\* Rollback outcomes: C23, C24
\* ------------------------------------------------------------------------
\* the files whose creation the rows with the given ids recorded
FilesCreatedBy(cps, ids) ==
    {cps[i].rollback_data.operations[1].path :
        i \in {j \in ids : cps[j].rollback_data.type = "file_operations"}}

\* the files the rows with the given ids left behind
FilesLeftBy(cps, ids) ==
    CreatedFiles(cps) \cap FilesCreatedBy(cps, ids)

\* C23: when every checkpoint of the window carries rollback data and every
\* undo and every post-undo verification succeeds, the call returns success
\* with steps_executed = the size of the window, every checkpoint of the
\* window is rolled_back with its file creations undone, and the target and
\* all other checkpoints keep their status and their files; an empty window
\* gives success with zero steps.
C23_RollbackSucceeds ==
    (/\ rb.pc = "returned"
     /\ rb.target \in DOMAIN rb.ledger0
     /\ rb.failed_pos = 0
     /\ \A k \in DOMAIN rb.chain : rb.chain[k].rollback_data.type # "none")
    => LET t0 == rb.ledger0[rb.target]
           window == {i \in DOMAIN rb.ledger0 :
                         /\ rb.ledger0[i].global_sequence > t0.global_sequence
                         /\ rb.ledger0[i].project_id = t0.project_id
                         /\ rb.ledger0[i].task_id \in {t0.task_id, NULL}
                         /\ rb.ledger0[i].status = "complete"}
           outside == DOMAIN rb.ledger0 \ window
       IN /\ rb.status = "success"
          /\ rb.steps_executed = Cardinality(window)
          /\ \A i \in window : checkpoints[i].status = "rolled_back"
          /\ FilesCreatedBy(rb.ledger0, window) \cap files = {}
          /\ rb.target \in outside
          /\ \A i \in outside : checkpoints[i] = rb.ledger0[i]
          /\ FilesLeftBy(rb.ledger0, outside) \subseteq files

\* a rollback over a window of two file-creating checkpoints has succeeded
C23_Witness ==
    /\ rb.pc = "returned"
    /\ rb.status = "success"
    /\ rb.steps_executed >= 2
    /\ \A k \in DOMAIN rb.chain : rb.chain[k].rollback_data.type = "file_operations"
    /\ rb.ledger0[rb.target].rollback_data.type = "file_operations"


\* C24: whenever the rollback call has returned, no checkpoint is left in
\* status rolling_back: every checkpoint whose undo was started is
\* rolled_back or rollback_failed, whatever the type tag of its rollback
\* data.
C24_NoPartialReversal ==
    rb.pc = "returned" =>
        \A i \in DOMAIN checkpoints : checkpoints[i].status # "rolling_back"


\* ------------------------------------------------------------------------
\* Terminal task states: C25
\* ------------------------------------------------------------------------
TerminalStatuses == {"complete", "permanently_failed"}

\* C25: once a task's status is complete or permanently_failed, no step of
\* the orchestrator, the retry manager or the compliance gate changes its
\* status, and no step removes the task.
C25_TerminalStatesFinal ==
    [][\A t \in TaskIds :
          tasks[t].status \in TerminalStatuses =>
              /\ t \in DOMAIN tasks'
              /\ tasks'[t].status = tasks[t].status]_vars


\* ------------------------------------------------------------------------
\* Halt detection over repeated passes: C26
\* ------------------------------------------------------------------------
\* the step is a detection pass over the input of the previous pass
SameInputAgain ==
    /\ detector'.passes = detector.passes + 1
    /\ detector'.op = detector.op
    /\ detector'.input = detector.input

\* C26: if a detection pass over an input found halt signals, so that
\* has_halt_signals() was true after it, then the next pass over the same
\* input, on the same detector or on a cleared one, leaves the detector
\* with at least those halt signals and has_halt_signals() true, whatever
\* the semantic classifier answers.
C26_NoFlapping ==
    [][(get_halt_signals(detector.found) # {} /\ SameInputAgain) =>
          /\ get_halt_signals(detector.found)
                \subseteq get_halt_signals(detector'.signals)
          /\ has_halt_signals(detector'.signals)]_vars


\* ------------------------------------------------------------------------
\* The audit record of the pentagon: C27
\* ------------------------------------------------------------------------
\* C27: when inputs, method, rules and review all pass but the audit entry
\* cannot be written, validate_all still returns a result, with record =
\* fail and valid = false; valid = true is returned only when the audit
\* entry was written during that call.
C27_NoRecordNoAction ==
    LET r == pent.result
    IN /\ (pent.pc # "idle" /\ r.record_attempted /\ ~r.audit_written)
             => /\ pent.pc = "returned"
                /\ r.record = "fail"
                /\ ~r.valid
                /\ audit_trail = 0
       /\ (pent.pc # "idle" /\ r.valid)
             => /\ r.record_attempted
                /\ r.audit_written
                /\ audit_trail = 1

\* the four checks passed and the INSERT INTO audit_trail failed
C27_Witness ==
    /\ pent.pc = "returned"
    /\ \A x \in {pent.result.inputs, pent.result.method,
                 pent.result.rules, pent.result.review} : x = "pass"
    /\ pent.result.record_attempted
    /\ ~pent.result.audit_written
    /\ pent.result.record = "fail"


\* ------------------------------------------------------------------------
\* The decision of the compliance gate: C28
\* ------------------------------------------------------------------------
SecurityPolicyPasses == ~gate.vr.security_risk /\ ~gate.vr.security_issue
OtherPoliciesPass ==
    /\ ~gate.vr.breaking_risk
    /\ ~gate.vr.external_risk
    /\ check_budget_policy(gate.project_id, gate.over_budget) = "pass"

\* C28: review_proposal returns cleared exactly when security_review,
\* breaking_change, external_api and budget_check all pass; when the
\* security policy fails it returns human_review_required, the task is held
\* and the escalation goes to the security path; when only other policies
\* fail it returns human_review_required with the lower-priority escalation
\* and the task's status is left as it was.
C28_ComplianceDecision ==
    gate.pc = "returned" =>
        /\ gate.decision = "cleared" <=> (SecurityPolicyPasses /\ OtherPoliciesPass)
        /\ gate.decision \in {"cleared", "human_review_required"}
        /\ ~SecurityPolicyPasses =>
              /\ gate.decision = "human_review_required"
              /\ gate.hold
              /\ gate.path = "security_team"
              /\ tasks[gate.task].status = "held"
        /\ (SecurityPolicyPasses /\ ~OtherPoliciesPass) =>
              /\ gate.decision = "human_review_required"
              /\ ~gate.hold
              /\ gate.path = "project_lead"
              /\ tasks[gate.task].status = gate.before
        /\ gate.decision = "cleared" =>
              /\ ~gate.hold
              /\ tasks[gate.task].status = gate.before

\* the security policy failed on a security issue of a running task
C28_Witness ==
    /\ gate.pc = "returned"
    /\ gate.vr.security_issue
    /\ ~gate.vr.security_risk
    /\ gate.before = "running"
    /\ tasks[gate.task].status = "held"
    /\ gate.path = "security_team"


C29_RecordWitness ==
    /\ retry_log.op = "record_retry"
    /\ retry_log.task \in TaskIds
    /\ retry_log.ret
    /\ tasks[retry_log.task].retry_count = 3
    /\ tasks[retry_log.task].next_retry_at = retry_log.at + 120


\* ------------------------------------------------------------------------
\* The task after a verification that is not approved: C30
\* ------------------------------------------------------------------------
\* C30: a run that ended on a verification result other than approved
\* leaves its task in needs_revision or in halted, never in another status.
C30_RejectedVerificationStatus ==
    \A w \in Workers :
        (RunReturned(w, "verification_failed") /\ RunAlone(w, workers[w].task))
        => tasks[workers[w].task].status \in {"needs_revision", "halted"}


\* ------------------------------------------------------------------------
\* The order of a rollback: C31
\* ------------------------------------------------------------------------
\* position of a checkpoint id in the list of undos started, 0 if absent
UndonePos(id) ==
    IF \E k \in DOMAIN rb.undone : rb.undone[k] = id
    THEN CHOOSE k \in DOMAIN rb.undone : rb.undone[k] = id
    ELSE 0

\* the undo of the checkpoint was started, succeeded and verified
UndoneAndVerified(id) ==
    /\ UndonePos(id) > 0
    /\ checkpoints[id].status = "rolled_back"
    /\ (rb.failed_pos = 0 \/ rb.chain[rb.failed_pos].id # id)

\* C31: the checkpoints of the window are undone in strictly descending
\* global_sequence order: no checkpoint is undone or has its status changed
\* before every window checkpoint with a greater global_sequence has been
\* undone and verified; and within one checkpoint the recorded operations
\* are reversed last-recorded first (a file created and then deleted by the
\* step is absent after the undo).
C31_DescendingOrder ==
    rb.pc # "idle" =>
        /\ \A k \in DOMAIN rb.chain :
              LET cp == rb.chain[k]
              IN (UndonePos(cp.id) > 0 \/ checkpoints[cp.id] # rb.ledger0[cp.id])
                 => \A m \in DOMAIN rb.chain :
                       rb.chain[m].global_sequence > cp.global_sequence
                       => /\ UndoneAndVerified(rb.chain[m].id)
                          /\ UndonePos(rb.chain[m].id) < UndonePos(cp.id)
        /\ \A k \in 1..(Len(rb.undone) - 1) :
              checkpoints[rb.undone[k]].global_sequence
                 > checkpoints[rb.undone[k + 1]].global_sequence
        /\ \A k \in DOMAIN rb.chain :
              LET cp == rb.chain[k]
              IN (/\ checkpoints[cp.id].status = "rolled_back"
                  /\ cp.rollback_data = TransientFileRollbackData(cp.id))
                 => PathOf(cp.id) \notin files

\* two checkpoints were undone, the later one first, and a step that
\* created and deleted a file was reversed
C31_Witness ==
    /\ rb.pc = "returned"
    /\ Len(rb.undone) >= 2
    /\ rb.undone[1] > rb.undone[2]
    /\ \E k \in DOMAIN rb.chain :
          /\ rb.chain[k].rollback_data = TransientFileRollbackData(rb.chain[k].id)
          /\ checkpoints[rb.chain[k].id].status = "rolled_back"


\* ------------------------------------------------------------------------
\* The window of a rollback: C32
\* ------------------------------------------------------------------------
\* the checkpoints that are complete, later than the target, and of the
\* target's project and task
SameTaskWindow ==
    LET t0 == rb.ledger0[rb.target]
    IN {i \in DOMAIN rb.ledger0 :
           /\ rb.ledger0[i].status = "complete"
           /\ rb.ledger0[i].global_sequence > t0.global_sequence
           /\ rb.ledger0[i].project_id = t0.project_id
           /\ rb.ledger0[i].task_id = t0.task_id}

\* C32: the window of rollback_to_checkpoint(target) is exactly the complete
\* checkpoints later than the target with the target's project and task:
\* checkpoints of another task, of no task, or in status created, failed or
\* rolled_back are never undone or changed by the call and never make it
\* return blocked.
C32_WindowExact ==
    (rb.pc # "idle" /\ rb.target \in DOMAIN rb.ledger0) =>
        /\ {rb.chain[k].id : k \in DOMAIN rb.chain} = SameTaskWindow
        /\ \A i \in DOMAIN rb.ledger0 \ SameTaskWindow :
              /\ i \notin Range(rb.undone)
              /\ checkpoints[i] = rb.ledger0[i]
        /\ rb.status = "blocked" =>
              \E i \in SameTaskWindow : rb.ledger0[i].rollback_data.type = "none"


\* ------------------------------------------------------------------------
\* The confidence threshold: C33
\* ------------------------------------------------------------------------
ConfidenceChecked ==
    /\ detector'.passes = detector.passes + 1
    /\ detector'.op = "check_confidence_score"

\* C33: check_confidence_score(score) appends exactly one halt-severity
\* signal, after which has_halt_signals() is true, if and only if score is
\* strictly below the threshold; a score equal to or above the threshold
\* adds no signal and leaves the accumulated signals as they were.
C33_ConfidenceThreshold ==
    [][ConfidenceChecked =>
          LET score == detector'.input.score
              appended == detector'.found
          IN IF score < confidence_threshold
             THEN /\ Cardinality(appended) = 1
                  /\ \A s \in appended : s.severity = "halt"
                  /\ detector'.signals = detector.signals \cup appended
                  /\ has_halt_signals(detector'.signals)
             ELSE /\ appended = {}
                  /\ detector'.signals = detector.signals
                  /\ has_halt_signals(detector'.signals)
                        <=> has_halt_signals(detector.signals)]_vars

\* a score equal to the threshold was checked on a detector without halt
\* signals and left it so
C33_Witness ==
    /\ detector.op = "check_confidence_score"
    /\ detector.input.score = confidence_threshold
    /\ detector.found = {}
    /\ detector.signals # {}
    /\ ~has_halt_signals(detector.signals)


\* ------------------------------------------------------------------------
\* Resetting the retries of a task: C34
\* ------------------------------------------------------------------------
\* C34: reset_retries sets retry_count to 0, empties retry_history, clears
\* next_retry_at and leaves status and current_phase as they were, also for
\* a permanently_failed task; after it should_retry is true and the next
\* max_retries record_retry calls are accepted.
C34_ResetRetries ==
    /\ (retry_log.op = "reset_retries") =>
          LET t == retry_log.task
          IN /\ retry_log.ret
             /\ tasks[t].retry_count = 0
             /\ tasks[t].retry_history = <<>>
             /\ tasks[t].next_retry_at = NULL
             /\ tasks[t].status = retry_log.before.status
             /\ tasks[t].current_phase = retry_log.before.current_phase
             /\ should_retry(tasks, t)
    /\ (/\ retry_log.op = "record_retry"
        /\ retry_log.task \in TaskIds
        /\ retry_log.calls[retry_log.task] <= max_retries) =>
          /\ retry_log.ret
          /\ tasks[retry_log.task].retry_count = retry_log.calls[retry_log.task]

\* a permanently_failed task with retries on record was reset
C34_Witness ==
    /\ retry_log.op = "reset_retries"
    /\ retry_log.before.status = "permanently_failed"
    /\ retry_log.before.retry_count = max_retries
    /\ tasks[retry_log.task].status = "permanently_failed"
    /\ tasks[retry_log.task].retry_count = 0


\* ------------------------------------------------------------------------
\* Backoff and the queue: C35
\* ------------------------------------------------------------------------
\* RetryManager.get_tasks_ready_for_retry: WHERE status = 'queued'
\* AND retry_count > 0 AND next_retry_at <= now
ready_for_retry(tk, clock) ==
    {t \in TaskIds : /\ tk[t].status = "queued"
                     /\ tk[t].retry_count > 0
                     /\ tk[t].next_retry_at <= clock}

\* C35: a task that record_retry re-queued is not started by run_once
\* before its next_retry_at has elapsed: a task with retries on record is
\* moved to running only if get_tasks_ready_for_retry would return it.
C35_BackoffRespected ==
    [][\A w \in Workers :
          (MarkRunning(w) /\ tasks[workers[w].task].retry_count > 0)
          => workers[w].task \in ready_for_retry(tasks, now)]_vars


\* ------------------------------------------------------------------------
\* Concurrent record_retry calls: C36
\* ------------------------------------------------------------------------
\* the record_retry calls on the task that returned true
AcceptedRetries(t) == retriers["r1"].accepted[t] + retriers["r2"].accepted[t]

\* C36: concurrent record_retry calls on a task are each counted: once the
\* callers have returned, retry_count and the number of retry_history
\* entries equal the number of calls that returned true, and no more than
\* max_retries calls were accepted, however the reads and the updates
\* interleave.
C36_ConcurrentRetriesCounted ==
    (\A r \in Retriers : retriers[r].pc = "idle") =>
        \A t \in TaskIds :
            /\ tasks[t].retry_count = AcceptedRetries(t)
            /\ Len(tasks[t].retry_history) = AcceptedRetries(t)
            /\ AcceptedRetries(t) <= max_retries


\* ------------------------------------------------------------------------
\* The retry bookkeeping of a task: C37
\* ------------------------------------------------------------------------
\* C37: after any sequence of record_retry and reset_retries calls, one
\* after the other, on a task that started with retry_count = 0 and an
\* empty history, 0 <= retry_count <= max_retries, retry_history has
\* exactly retry_count entries and their attempt numbers are 1, 2, ...,
\* retry_count in order.
C37_RetryBookkeeping ==
    \A t \in TaskIds :
        /\ tasks[t].retry_count \in 0..max_retries
        /\ Len(tasks[t].retry_history) = tasks[t].retry_count
        /\ \A k \in DOMAIN tasks[t].retry_history :
              tasks[t].retry_history[k].attempt = k

\* a task that was reset after its last retry has a retry on record again,
\* beside a task with all its retries on record
C37_Witness ==
    /\ retry_log.op = "record_retry"
    /\ retry_log.task \in TaskIds
    /\ retry_log.before.status = "permanently_failed"
    /\ retry_log.before.retry_count = 0
    /\ tasks[retry_log.task].retry_count = 1
    /\ \E u \in TaskIds : tasks[u].retry_count = max_retries


\* ------------------------------------------------------------------------
\* A run always leaves its task out of running: C38
\* ------------------------------------------------------------------------
\* the orchestrators, each running a run_once it has begun to its return
SpecRun ==
    /\ InitOrch
    /\ [][NextOrch]_vars
    /\ \A w \in Workers : WF_vars(NextWorker(w))

C39_RulesAcceptExecutingTask ==
    \A w \in Workers :
       LET t == workers[w].task
       IN (workers[w].pc = "execution" /\ RunAlone(w, t))
          => \A step \in {"git_push", "create_pr"} :
                check_rules(step,
                            [task_id |-> t, uncommitted_changes |-> FALSE,
                             source_branch |-> "feature",
                             target_branch |-> "main"],
                            RowStatus(tasks, t)) = "pass"


\* C40: verify_task_chain applies the initial-phase rule of its table: on a
\* verified chain whose first checkpoint (lowest global_sequence) has a
\* phase that VALID_PHASE_TRANSITIONS does not list as reachable from no
\* prior phase, the report has is_valid = false and lists that checkpoint.
C40_InitialPhaseRule ==
    chain_report.task_id # NULL
    => LET chain == TaskChain(checkpoints, chain_report.task_id)
       IN (/\ chain # <<>>
           /\ chain[1].phase # NULL
           /\ chain[1].phase \notin VALID_PHASE_TRANSITIONS[NULL])
          => /\ ~chain_report.is_valid
             /\ chain[1].id \in chain_report.issues

====
